---- MODULE Spec2Model ----
(***************************************************************************)
(* Model of the Modbus RTU master driver src/minimalmodbus/minimalmodbus.py *)
(* (a MicroPython port of MinimalModbus): frame building and validation,    *)
(* CRC16, response size prediction, the generic command with its argument   *)
(* checks, and the transaction (_performCommand / _communicate) with the    *)
(* silent period kept between frames on a shared port.                      *)
(*                                                                         *)
(* Bytes are the integers 0..255, byte strings are sequences of bytes.      *)
(* A Python function is an operator returning a record [exc, val]: exc is   *)
(* "none" on return and names the raised error otherwise.                   *)
(***************************************************************************)
EXTENDS Integers, Sequences, FiniteSets, TLC

(***************************************************************************)
(* Results of calls                                                        *)
(***************************************************************************)
Ok(v) == [exc |-> "none", val |-> v]

\* a raise from a function returning a byte string
RaiseB(e) == [exc |-> e, val |-> <<>>]

\* a raise from a function returning a number
RaiseN(e) == [exc |-> e, val |-> 0]

(***************************************************************************)
(* Python helpers                                                          *)
(***************************************************************************)
Min2(a, b) == IF a < b THEN a ELSE b

Max2(a, b) == IF a > b THEN a ELSE b

\* s[a:b] for 0 <= a, 0 <= b (0-based, half open, clamped to the length)
Slice(s, a, b) == SubSeq(s, a + 1, Min2(b, Len(s)))

\* s[-n:] for n > 0
LastN(s, n) == SubSeq(s, Max2(Len(s) - n, 0) + 1, Len(s))

RECURSIVE BitXor(_, _)
\* a ^ b on non-negative integers
BitXor(a, b) ==
    IF a = 0 THEN b
    ELSE IF b = 0 THEN a
    ELSE (((a % 2) + (b % 2)) % 2) + 2 * BitXor(a \div 2, b \div 2)

RECURSIVE BitOr(_, _)
\* a | b on non-negative integers
BitOr(a, b) ==
    IF a = 0 THEN b
    ELSE IF b = 0 THEN a
    ELSE Max2(a % 2, b % 2) + 2 * BitOr(a \div 2, b \div 2)

RECURSIVE Pow(_, _)
\* b ** e
Pow(b, e) == IF e = 0 THEN 1 ELSE b * Pow(b, e - 1)

(***************************************************************************)
(* Named constants of the source                                           *)
(***************************************************************************)
MODE_RTU == "rtu"

_NUMBER_OF_BYTES_PER_REGISTER == 2

FUNCTIONCODE_MIN == 1

FUNCTIONCODE_MAX == 127

SLAVEADDRESS_MIN == 0

SLAVEADDRESS_MAX == 247

REGISTERADDRESS_MIN == 0

REGISTERADDRESS_MAX == 65535

(***************************************************************************)
(* Error checking functions                                                *)
(***************************************************************************)
\* _checkInt / _checkNumerical on an integer: "none", or the error raised
_checkInt(inputvalue, minvalue, maxvalue) ==
    IF inputvalue < minvalue THEN "ValueError: too small"
    ELSE IF inputvalue > maxvalue THEN "ValueError: too large"
    ELSE "none"

\* _checkInt with maxvalue None
_checkIntMin(inputvalue, minvalue) ==
    IF inputvalue < minvalue THEN "ValueError: too small" ELSE "none"

\* mutant: every mode is taken
_checkMode_AnyMode(mode) == "none"

_checkMode(mode) ==
    IF mode \notin {MODE_RTU} THEN "ValueError: Unreconized Modbus mode" ELSE "none"

\* a listOfAllowedValues argument: None, or a list of function codes
NoList == [isNone |-> TRUE, list |-> {}]

AllowedList(S) == [isNone |-> FALSE, list |-> S]

\* mutant: the range of the function code is not checked
_checkFunctioncode_NoRange(functioncode, listOfAllowedValues) ==
    IF listOfAllowedValues.isNone THEN "none"
    ELSE IF functioncode \notin listOfAllowedValues.list
    THEN "ValueError: Wrong function code"
    ELSE "none"

_checkFunctioncode(functioncode, listOfAllowedValues) ==
    IF _checkInt(functioncode, FUNCTIONCODE_MIN, FUNCTIONCODE_MAX) # "none"
    THEN "ValueError: functioncode out of range"
    ELSE IF listOfAllowedValues.isNone THEN "none"
    ELSE IF functioncode \notin listOfAllowedValues.list
    THEN "ValueError: Wrong function code"
    ELSE "none"

\* mutant: the slave address is not checked
_checkSlaveaddress_Unchecked(slaveaddress) == "none"

_checkSlaveaddress(slaveaddress) ==
    IF _checkInt(slaveaddress, SLAVEADDRESS_MIN, SLAVEADDRESS_MAX) # "none"
    THEN "ValueError: slaveaddress out of range"
    ELSE "none"

_checkRegisteraddress(registeraddress) ==
    IF _checkInt(registeraddress, REGISTERADDRESS_MIN, REGISTERADDRESS_MAX) # "none"
    THEN "ValueError: registeraddress out of range"
    ELSE "none"

\* the type check of _checkString: "if not isinstance(inputstring, bytearray)"
_checkStringType(inputtype) ==
    IF inputtype # "bytearray" THEN "TypeError: should be a string" ELSE "none"

\* the length checks of _checkString on a bytearray; maxlength -1 stands for None
_checkString(inputstring, minlength, maxlength) ==
    IF Len(inputstring) < minlength THEN "ValueError: too short"
    ELSE IF maxlength >= 0 /\ Len(inputstring) > maxlength THEN "ValueError: too long"
    ELSE "none"

(***************************************************************************)
(* Python values given to and returned by the commands                     *)
(***************************************************************************)
PyNone == [t |-> "None", n |-> 0, d |-> 0, l |-> <<>>, short |-> FALSE]

PyInt(n) == [t |-> "int", n |-> n, d |-> 0, l |-> <<>>, short |-> FALSE]

\* the float written n / 10 ** d
PyFloat(n, d) == [t |-> "float", n |-> n, d |-> d, l |-> <<>>, short |-> FALSE]

\* a float written n / 10 ** d that has no exact binary representation and
\* whose product with the multiplier of _numToTwoByteArray is, in the floating
\* point arithmetic of the build, just short of the decimal product
PyFloatShort(n, d) == [t |-> "float", n |-> n, d |-> d, l |-> <<>>, short |-> TRUE]

PyList(l) == [t |-> "list", n |-> 0, d |-> 0, l |-> l, short |-> FALSE]

\* a command returning v
Return(v) == [exc |-> "none", val |-> v]

\* a command raising e
Raise(e) == [exc |-> e, val |-> PyNone]

\* _checkNumerical: the type check of a value
_checkNumerical(value) ==
    IF value.t \notin {"int", "float"} THEN "TypeError: must be numerical" ELSE "none"

(***************************************************************************)
(* String and num conversions                                              *)
(***************************************************************************)
_numToOneByteArray(inputvalue) ==
    IF _checkInt(inputvalue, 0, 255) # "none"
    THEN RaiseB("ValueError: byte out of range")
    ELSE Ok(<<inputvalue>>)

\* struct.pack of a 16-bit integer: formatstring is <<byteorder, code>> with
\* byteorder "<" or ">" and code "h" (signed) or "H" (unsigned)
_pack(formatstring, value) ==
    LET lo == IF formatstring[2] = "h" THEN -32768 ELSE 0
        hi == IF formatstring[2] = "h" THEN 32767 ELSE 65535
        u  == IF value < 0 THEN value + 65536 ELSE value
    IN  IF value < lo \/ value > hi
        THEN RaiseB("ValueError: The value to send is probably out of range")
        ELSE IF formatstring[1] = "<"
             THEN Ok(<<u % 256, u \div 256>>)
             ELSE Ok(<<u \div 256, u % 256>>)

Sign(n) == IF n > 0 THEN 1 ELSE IF n < 0 THEN -1 ELSE 0

\* mutant: the quotient rounded down
TruncDiv_Floor(n, m) == n \div m

\* int(n / m) for m > 0: the quotient truncated toward zero
TruncDiv(n, m) == IF n >= 0 THEN n \div m ELSE -((-n) \div m)

\* int(float(value) * multiplier) with multiplier = 10 ** numberOfDecimals, for
\* the value written n / 10 ** d.  The product is taken from the exponents; a
\* product of 10 ** 5 times a non-zero n or more, beyond 16 bits and beyond
\* 32-bit integers for many decimals, is kept as +-10 ** 5 (struct.pack rejects it).
\* A float that is short gives a product just under the decimal product: when
\* that is an integer k, int() truncates it to the integer before k.
ScaledInteger(value, numberOfDecimals) ==
    LET up == numberOfDecimals - value.d
        product == IF up >= 0 THEN value.n * Pow(10, up)
                   ELSE TruncDiv(value.n, Pow(10, -up))
        integral == up >= 0 \/ value.n % Pow(10, -up) = 0
    IN  IF value.n = 0 THEN 0
        ELSE IF up >= 5 THEN Sign(value.n) * Pow(10, 5)
        ELSE IF value.short /\ integral THEN product - Sign(value.n)
        ELSE product

_numToTwoByteArray(value, numberOfDecimals, LsbFirst, signed) ==
    IF _checkNumerical(value) # "none" THEN RaiseB(_checkNumerical(value))
    ELSE IF numberOfDecimals < 0 THEN RaiseB("ValueError: number of decimals")
    ELSE LET integer == ScaledInteger(value, numberOfDecimals)
             formatcode == << IF LsbFirst THEN "<" ELSE ">",
                              IF signed THEN "h" ELSE "H" >>
         IN  _pack(formatcode, integer)

\* mutant: the two bytes taken low byte first
_unpack_LittleEndian(formatstring, packed) ==
    LET u == packed[2] * 256 + packed[1]
    IN  IF formatstring[2] = "h" /\ u >= 32768 THEN u - 65536 ELSE u

\* struct.unpack of two bytes, big-endian
_unpack(formatstring, packed) ==
    LET u == packed[1] * 256 + packed[2]
    IN  IF formatstring[2] = "h" /\ u >= 32768 THEN u - 65536 ELSE u

\* the register as an integer, or as the float fullregister / 10 ** numberOfDecimals
_twoByteStringToNum(bytestring, numberOfDecimals, signed) ==
    IF _checkString(bytestring, 2, 2) # "none"
    THEN Raise("ValueError: bytearray length")
    ELSE IF numberOfDecimals < 0 THEN Raise("ValueError: number of decimals")
    ELSE LET fullregister == _unpack(<< ">", IF signed THEN "h" ELSE "H" >>, bytestring)
         IN  IF numberOfDecimals = 0
             THEN Return(PyInt(fullregister))
             ELSE Return(PyFloat(fullregister, numberOfDecimals))

(***************************************************************************)
(* Bit manipulation                                                        *)
(***************************************************************************)
_setBitOn(x, bitNum) == BitOr(x, Pow(2, bitNum))

(***************************************************************************)
(* CRC16                                                                   *)
(***************************************************************************)
_CRC16TABLE == <<
        0, 49345, 49537,   320, 49921,   960,   640, 49729, 50689,  1728,  1920,
    51009,  1280, 50625, 50305,  1088, 52225,  3264,  3456, 52545,  3840, 53185,
    52865,  3648,  2560, 51905, 52097,  2880, 51457,  2496,  2176, 51265, 55297,
     6336,  6528, 55617,  6912, 56257, 55937,  6720,  7680, 57025, 57217,  8000,
    56577,  7616,  7296, 56385,  5120, 54465, 54657,  5440, 55041,  6080,  5760,
    54849, 53761,  4800,  4992, 54081,  4352, 53697, 53377,  4160, 61441, 12480,
    12672, 61761, 13056, 62401, 62081, 12864, 13824, 63169, 63361, 14144, 62721,
    13760, 13440, 62529, 15360, 64705, 64897, 15680, 65281, 16320, 16000, 65089,
    64001, 15040, 15232, 64321, 14592, 63937, 63617, 14400, 10240, 59585, 59777,
    10560, 60161, 11200, 10880, 59969, 60929, 11968, 12160, 61249, 11520, 60865,
    60545, 11328, 58369,  9408,  9600, 58689,  9984, 59329, 59009,  9792,  8704,
    58049, 58241,  9024, 57601,  8640,  8320, 57409, 40961, 24768, 24960, 41281,
    25344, 41921, 41601, 25152, 26112, 42689, 42881, 26432, 42241, 26048, 25728,
    42049, 27648, 44225, 44417, 27968, 44801, 28608, 28288, 44609, 43521, 27328,
    27520, 43841, 26880, 43457, 43137, 26688, 30720, 47297, 47489, 31040, 47873,
    31680, 31360, 47681, 48641, 32448, 32640, 48961, 32000, 48577, 48257, 31808,
    46081, 29888, 30080, 46401, 30464, 47041, 46721, 30272, 29184, 45761, 45953,
    29504, 45313, 29120, 28800, 45121, 20480, 37057, 37249, 20800, 37633, 21440,
    21120, 37441, 38401, 22208, 22400, 38721, 21760, 38337, 38017, 21568, 39937,
    23744, 23936, 40257, 24320, 40897, 40577, 24128, 23040, 39617, 39809, 23360,
    39169, 22976, 22656, 38977, 34817, 18624, 18816, 35137, 19200, 35777, 35457,
    19008, 19968, 36545, 36737, 20288, 36097, 19904, 19584, 35905, 17408, 33985,
    34177, 17728, 34561, 18368, 18048, 34369, 33281, 17088, 17280, 33601, 16640,
    33217, 32897, 16448 >>

\* "register = (register >> 8) ^ _CRC16TABLE[(register ^ char) & 0xFF]"
CrcStep(register, char) ==
    BitXor(register \div 256, _CRC16TABLE[(BitXor(register, char) % 256) + 1])

RECURSIVE CrcRegister(_, _)
\* the loop of _calculateCrcString: one table lookup per byte, from the first
\* byte to the last (the bytes of the first half, then those of the second);
\* the register is a number of 16 bits, known before the next byte is taken
CrcRegister(register, inputstring) ==
    IF register \notin 0..65535 \/ inputstring = <<>> THEN register
    ELSE IF Len(inputstring) = 1 THEN CrcStep(register, inputstring[1])
    ELSE LET half == Len(inputstring) \div 2
         IN  CrcRegister(CrcRegister(register, SubSeq(inputstring, 1, half)),
                         SubSeq(inputstring, half + 1, Len(inputstring)))

\* mutant: the CRC leaves out the first byte
_calculateCrcString_SkipFirst(inputstring) ==
    _numToTwoByteArray(PyInt(CrcRegister(65535, Slice(inputstring, 1, Len(inputstring)))),
                       0, TRUE, FALSE).val

\* mutant: the CRC with its high byte first
_calculateCrcString_MsbFirst(inputstring) ==
    _numToTwoByteArray(PyInt(CrcRegister(65535, inputstring)), 0, FALSE, FALSE).val

\* the register preloaded with ones, the result low byte first
_calculateCrcString(inputstring) ==
    _numToTwoByteArray(PyInt(CrcRegister(65535, inputstring)), 0, TRUE, FALSE).val

(***************************************************************************)
(* Payload handling                                                        *)
(***************************************************************************)
\* the first failing argument check of _embedPayload / _extractPayload
CheckFrameArguments(slaveaddress, mode, functioncode) ==
    IF _checkSlaveaddress(slaveaddress) # "none" THEN _checkSlaveaddress(slaveaddress)
    ELSE IF _checkMode(mode) # "none" THEN _checkMode(mode)
    ELSE _checkFunctioncode(functioncode, NoList)

_embedPayload(slaveaddress, mode, functioncode, payloaddata) ==
    IF CheckFrameArguments(slaveaddress, mode, functioncode) # "none"
    THEN RaiseB(CheckFrameArguments(slaveaddress, mode, functioncode))
    ELSE LET firstPart == _numToOneByteArray(slaveaddress).val
                          \o _numToOneByteArray(functioncode).val
                          \o payloaddata
         IN  Ok(firstPart \o _calculateCrcString(firstPart))

NUMBER_OF_RESPONSE_STARTBYTES == 2

NUMBER_OF_CRC_BYTES == 2

BITNUMBER_FUNCTIONCODE_ERRORINDICATION == 7

MINIMAL_RESPONSE_LENGTH_RTU == NUMBER_OF_RESPONSE_STARTBYTES + NUMBER_OF_CRC_BYTES

\* mutant: the payload taken from the function code byte on
ResponsePayload_FromHeader(response) ==
    Slice(response, NUMBER_OF_RESPONSE_STARTBYTES - 1,
          Len(response) - NUMBER_OF_CRC_BYTES)

\* response[firstDatabyteNumber:lastDatabyteNumber]
ResponsePayload(response) ==
    Slice(response, NUMBER_OF_RESPONSE_STARTBYTES, Len(response) - NUMBER_OF_CRC_BYTES)

\* mutant: the mismatch tested before the error indication
CheckReceivedFunctioncode_MismatchFirst(receivedFunctioncode, functioncode) ==
    IF receivedFunctioncode # functioncode
    THEN "ValueError: Wrong functioncode"
    ELSE IF receivedFunctioncode
              = _setBitOn(functioncode, BITNUMBER_FUNCTIONCODE_ERRORINDICATION)
    THEN "ValueError: The slave is indicating an error"
    ELSE "none"

\* the check of the response's function code byte: "none" when it is the
\* requested one
CheckReceivedFunctioncode(receivedFunctioncode, functioncode) ==
    IF receivedFunctioncode
         = _setBitOn(functioncode, BITNUMBER_FUNCTIONCODE_ERRORINDICATION)
    THEN "ValueError: The slave is indicating an error"
    ELSE IF receivedFunctioncode # functioncode
    THEN "ValueError: Wrong functioncode"
    ELSE "none"

\* mutant: the slave address checked before the checksum
CheckResponse_AddressFirst(response, slaveaddress, functioncode) ==
    IF Len(response) < MINIMAL_RESPONSE_LENGTH_RTU
    THEN "ValueError: Too short Modbus RTU response"
    ELSE IF response[1] # slaveaddress
    THEN "ValueError: Wrong return slave address"
    ELSE IF LastN(response, NUMBER_OF_CRC_BYTES)
              # _calculateCrcString(Slice(response, 0, Len(response) - NUMBER_OF_CRC_BYTES))
    THEN "ValueError: Checksum error"
    ELSE CheckReceivedFunctioncode(response[2], functioncode)

\* the checks of a response, in the order of the code
CheckResponse(response, slaveaddress, functioncode) ==
    IF Len(response) < MINIMAL_RESPONSE_LENGTH_RTU
    THEN "ValueError: Too short Modbus RTU response"
    ELSE LET receivedChecksum == LastN(response, NUMBER_OF_CRC_BYTES)
             responseWithoutChecksum ==
                 Slice(response, 0, Len(response) - NUMBER_OF_CRC_BYTES)
             calculatedChecksum == _calculateCrcString(responseWithoutChecksum)
         IN  IF receivedChecksum # calculatedChecksum
             THEN "ValueError: Checksum error"
             ELSE IF response[1] # slaveaddress
             THEN "ValueError: Wrong return slave address"
             ELSE CheckReceivedFunctioncode(response[2], functioncode)

_extractPayload(response, slaveaddress, mode, functioncode) ==
    IF CheckFrameArguments(slaveaddress, mode, functioncode) # "none"
    THEN RaiseB(CheckFrameArguments(slaveaddress, mode, functioncode))
    ELSE IF CheckResponse(response, slaveaddress, functioncode) # "none"
    THEN RaiseB(CheckResponse(response, slaveaddress, functioncode))
    ELSE Ok(ResponsePayload(response))

(***************************************************************************)
(* Serial communication utility functions                                  *)
(***************************************************************************)
MIN_PAYLOAD_LENGTH == 4

NUMBER_OF_PAYLOAD_BYTES_IN_WRITE_CONFIRMATION == 4

NUMBER_OF_PAYLOAD_BYTES_FOR_BYTECOUNTFIELD == 1

NUMBER_OF_RTU_RESPONSE_STARTBYTES == 2

NUMBER_OF_RTU_RESPONSE_ENDBYTES == 2

\* mutant: the byte count field forgotten
RegisterResponsePayloadSize_NoByteCount(number_of_registers) ==
    number_of_registers * _NUMBER_OF_BYTES_PER_REGISTER

\* the response payload size for function codes 3 and 4
RegisterResponsePayloadSize(number_of_registers) ==
    NUMBER_OF_PAYLOAD_BYTES_FOR_BYTECOUNTFIELD
      + number_of_registers * _NUMBER_OF_BYTES_PER_REGISTER

\* mutant: the bits of a last, partly filled byte are left out
BitResponsePayloadSize_Floor(number_of_inputs) ==
    NUMBER_OF_PAYLOAD_BYTES_FOR_BYTECOUNTFIELD + (number_of_inputs \div 8)

\* the response payload size for function codes 1 and 2
BitResponsePayloadSize(number_of_inputs) ==
    NUMBER_OF_PAYLOAD_BYTES_FOR_BYTECOUNTFIELD
      + (number_of_inputs \div 8) + (IF number_of_inputs % 8 # 0 THEN 1 ELSE 0)

\* "Calculate payload size"; -1 stands for the raise of the else branch
ResponsePayloadSize(functioncode, payloadToSlave) ==
    IF functioncode \in {5, 6, 15, 16}
    THEN NUMBER_OF_PAYLOAD_BYTES_IN_WRITE_CONFIRMATION
    ELSE IF functioncode \in {1, 2, 3, 4}
    THEN LET given_size == _twoByteStringToNum(Slice(payloadToSlave, 2, 4), 0, FALSE).val.n
         IN  IF functioncode = 1 \/ functioncode = 2
             THEN BitResponsePayloadSize(given_size)
             ELSE RegisterResponsePayloadSize(given_size)
    ELSE -1

_predictResponseSize(mode, functioncode, payloadToSlave) ==
    IF _checkMode(mode) # "none" THEN RaiseN(_checkMode(mode))
    ELSE IF _checkFunctioncode(functioncode, NoList) # "none"
    THEN RaiseN(_checkFunctioncode(functioncode, NoList))
    ELSE IF _checkString(payloadToSlave, MIN_PAYLOAD_LENGTH, -1) # "none"
    THEN RaiseN("ValueError: The payload is too short")
    ELSE IF ResponsePayloadSize(functioncode, payloadToSlave) < 0
    THEN RaiseN("ValueError: Wrong functioncode")
    ELSE Ok(NUMBER_OF_RTU_RESPONSE_STARTBYTES
              + ResponsePayloadSize(functioncode, payloadToSlave)
              + NUMBER_OF_RTU_RESPONSE_ENDBYTES)

(***************************************************************************)
(* Bit patterns and value lists                                            *)
(***************************************************************************)
\* _createBitpattern returns a str, which is then added to a bytearray: the
\* addition either raises TypeError or appends the bytes of the str, '\xff'
\* as the byte FF or as its UTF-8 encoding C3 BF.  The set of results.
_createBitpattern(functioncode, value) ==
    IF _checkFunctioncode(functioncode, AllowedList({5, 15})) # "none"
    THEN {RaiseB(_checkFunctioncode(functioncode, AllowedList({5, 15})))}
    ELSE IF value.t # "int" THEN {RaiseB("TypeError: inputvalue must be an integer")}
    ELSE IF _checkInt(value.n, 0, 1) # "none" THEN {RaiseB("ValueError: inputvalue")}
    ELSE {RaiseB("TypeError: can't concat str to bytearray")} \cup
         (IF functioncode = 5
          THEN IF value.n = 0 THEN {Ok(<<0, 0>>)} ELSE {Ok(<<255, 0>>), Ok(<<195, 191, 0>>)}
          ELSE IF value.n = 0 THEN {Ok(<<0>>)} ELSE {Ok(<<1>>)})

\* _valuelistToBytestring starts from the str '' and adds a bytearray to it,
\* which raises TypeError at the first element, after the checks of the list
_valuelistToBytestring(valuelist, numberOfRegisters) ==
    IF _checkIntMin(numberOfRegisters, 1) # "none"
    THEN RaiseB("ValueError: number of registers")
    ELSE IF valuelist.t # "list" THEN RaiseB("TypeError: The valuelist parameter must be a list")
    ELSE IF \E k \in 1..Len(valuelist.l) : _checkInt(valuelist.l[k], 0, 65535) # "none"
    THEN RaiseB("ValueError: elements in the input value list")
    ELSE IF Len(valuelist.l) # numberOfRegisters
    THEN RaiseB("ValueError: length of the list")
    ELSE RaiseB("TypeError: can't convert 'bytearray' object to str implicitly")

\* the loop of _bytearrayToValuelist: "substring = bytearray[offset : offset + 2]",
\* "values.append(_twoByteStringToNum(substring))"
RegisterValues(bytestring) ==
    [i \in 1..(Len(bytestring) \div 2) |->
        _twoByteStringToNum(SubSeq(bytestring, 2 * i - 1, 2 * i), 0, FALSE).val.n]

_bytearrayToValuelist(bytestring, numberOfRegisters) ==
    IF _checkIntMin(numberOfRegisters, 1) # "none"
    THEN Raise("ValueError: number of registers")
    ELSE IF _checkString(bytestring, _NUMBER_OF_BYTES_PER_REGISTER * numberOfRegisters,
                    _NUMBER_OF_BYTES_PER_REGISTER * numberOfRegisters) # "none"
    THEN Raise("ValueError: byte string length")
    ELSE Return(PyList(RegisterValues(bytestring)))

\* _bitResponseToValue compares the bytearray with the str '\x01' or '\x00':
\* equal by content, or never equal.  The set of results.
_bitResponseToValue(bytestring) ==
    IF _checkString(bytestring, 1, 1) # "none" THEN {Raise("ValueError: bytearray length")}
    ELSE {Raise("ValueError: Could not convert bit response to a value")} \cup
         (IF bytestring = <<1>> THEN {Return(PyInt(1))}
          ELSE IF bytestring = <<0>> THEN {Return(PyInt(0))}
          ELSE {})

(***************************************************************************)
(* Checks of the response payload                                          *)
(***************************************************************************)
\* mutant: the byte count of the response is not checked
_checkResponseByteCount_Unchecked(payload) == "none"

_checkResponseByteCount(payload) ==
    IF _checkString(payload, 1, -1) # "none" THEN "ValueError: The payload is too short"
    ELSE IF payload[1] # Len(payload) - 1
    THEN "ValueError: Wrong given number of bytes in the response"
    ELSE "none"

_checkResponseRegisterAddress(payload, registeraddress) ==
    IF _checkString(payload, 2, -1) # "none" THEN "ValueError: The payload is too short"
    ELSE IF _twoByteStringToNum(Slice(payload, 0, 2), 0, FALSE).val.n # registeraddress
    THEN "ValueError: Wrong given write start adress"
    ELSE "none"

_checkResponseNumberOfRegisters(payload, numberOfRegisters) ==
    IF _checkString(payload, 4, -1) # "none" THEN "ValueError: The payload is too short"
    ELSE IF _twoByteStringToNum(Slice(payload, 2, 4), 0, FALSE).val.n # numberOfRegisters
    THEN "ValueError: Wrong number of registers to write in the response"
    ELSE "none"

\* writedata is a bytearray
_checkResponseWriteData(payload, writedata) ==
    IF _checkString(payload, 4, -1) # "none" THEN "ValueError: The payload is too short"
    ELSE IF Slice(payload, 2, 4) # writedata
    THEN "ValueError: Wrong write data in the response"
    ELSE "none"

(***************************************************************************)
(* Methods for talking to the slave.  A call is a record: op names the      *)
(* method called, the other fields are its arguments (those the method      *)
(* does not take hold their defaults).                                      *)
(***************************************************************************)
PAYLOADFORMAT_REGISTER == "register"

PAYLOADFORMAT_REGISTERS == "registers"

ALL_PAYLOADFORMATS == {PAYLOADFORMAT_REGISTER, PAYLOADFORMAT_REGISTERS}

ALL_ALLOWED_FUNCTIONCODES == (1..6) \cup {15, 16}

MAX_NUMBER_OF_REGISTERS == 255

NUMBER_OF_BITS == 1

NUMBER_OF_BYTES_FOR_ONE_BIT == 1

NUMBER_OF_BYTES_BEFORE_REGISTERDATA == 1

\* the checks of write_register, read_registers and write_registers before
\* they call _genericCommand
FacadeCheck(call) ==
    IF call.op = "write_register"
    THEN IF _checkFunctioncode(call.functioncode, AllowedList({6, 16})) # "none"
         THEN _checkFunctioncode(call.functioncode, AllowedList({6, 16}))
         ELSE IF _checkInt(call.numberOfDecimals, 0, 10) # "none"
         THEN "ValueError: number of decimals"
         ELSE _checkNumerical(call.value)
    ELSE IF call.op = "read_registers"
    THEN IF _checkFunctioncode(call.functioncode, AllowedList({3, 4})) # "none"
         THEN _checkFunctioncode(call.functioncode, AllowedList({3, 4}))
         ELSE IF _checkIntMin(call.numberOfRegisters, 1) # "none"
         THEN "ValueError: number of registers"
         ELSE "none"
    ELSE IF call.op = "write_registers"
    THEN IF call.value.t # "list" THEN "TypeError: The values parameter must be a list"
         ELSE IF _checkIntMin(Len(call.value.l), 1) # "none"
         THEN "ValueError: length of input list"
         ELSE "none"
    ELSE "none"

\* the arguments with which the method calls _genericCommand
GenericArguments(call) ==
    IF call.op = "write_register"
    THEN [call EXCEPT !.numberOfRegisters = 1, !.payloadformat = "None"]
    ELSE IF call.op = "read_registers"
    THEN [call EXCEPT !.value = PyNone, !.numberOfDecimals = 0, !.signed = FALSE,
                      !.payloadformat = PAYLOADFORMAT_REGISTERS]
    ELSE IF call.op = "write_registers"
    THEN [call EXCEPT !.functioncode = 16, !.numberOfDecimals = 0, !.signed = FALSE,
                      !.numberOfRegisters = Len(call.value.l),
                      !.payloadformat = PAYLOADFORMAT_REGISTERS]
    ELSE call

\* the payload format after "if functioncode in [3, 4, 6, 16] and payloadformat is None"
PayloadFormat(g) ==
    IF g.functioncode \in {3, 4, 6, 16} /\ g.payloadformat = "None"
    THEN PAYLOADFORMAT_REGISTER
    ELSE g.payloadformat

\* "Check input values" and "Check combinations of input parameters" of
\* _genericCommand: the first check that fails.  The test of "signed" names
\* PAYLOADFORMAT_LONG, which is defined nowhere: NameError.
GenericCheck(g) ==
    LET payloadformat == PayloadFormat(g)
    IN  IF _checkFunctioncode(g.functioncode, AllowedList(ALL_ALLOWED_FUNCTIONCODES)) # "none"
        THEN _checkFunctioncode(g.functioncode, AllowedList(ALL_ALLOWED_FUNCTIONCODES))
        ELSE IF _checkRegisteraddress(g.registeraddress) # "none"
        THEN _checkRegisteraddress(g.registeraddress)
        ELSE IF _checkIntMin(g.numberOfDecimals, 0) # "none"
        THEN "ValueError: number of decimals"
        ELSE IF _checkInt(g.numberOfRegisters, 1, MAX_NUMBER_OF_REGISTERS) # "none"
        THEN "ValueError: number of registers"
        ELSE IF g.payloadformat # "None" /\ g.payloadformat \notin ALL_PAYLOADFORMATS
        THEN "ValueError: Wrong payload format variable"
        ELSE IF g.functioncode \in {3, 4, 6, 16} /\ payloadformat \notin ALL_PAYLOADFORMATS
        THEN "ValueError: The payload format is unknown"
        ELSE IF g.functioncode \notin {3, 4, 6, 16} /\ payloadformat # "None"
        THEN "ValueError: The payload format given is not allowed for this function code"
        ELSE IF g.signed
        THEN "NameError: PAYLOADFORMAT_LONG"
        ELSE IF g.numberOfDecimals > 0 /\ payloadformat # PAYLOADFORMAT_REGISTER
        THEN "ValueError: The numberOfDecimals parameter can not be used for this data format"
        ELSE IF g.functioncode \notin {3, 4, 16} /\ g.numberOfRegisters # 1
        THEN "ValueError: The numberOfRegisters is not valid for this function code"
        ELSE IF /\ g.functioncode = 16
                /\ payloadformat = PAYLOADFORMAT_REGISTER
                /\ g.numberOfRegisters # 1
        THEN "ValueError: Wrong numberOfRegisters when writing to a single register"
        ELSE IF g.functioncode \in {5, 6, 15, 16} /\ g.value.t = "None"
        THEN "ValueError: The input value is not valid for this function code"
        ELSE IF /\ g.functioncode \in {6, 16}
                /\ payloadformat = PAYLOADFORMAT_REGISTER
                /\ _checkNumerical(g.value) # "none"
        THEN _checkNumerical(g.value)
        ELSE IF g.functioncode = 16 /\ payloadformat = PAYLOADFORMAT_REGISTERS
        THEN IF g.value.t # "list" THEN "TypeError: The value parameter must be a list"
             ELSE IF Len(g.value.l) # g.numberOfRegisters
             THEN "ValueError: The list length does not match number of registers"
             ELSE "none"
        ELSE "none"

\* a + b of two results: the sum raises what the first raising operand raises
Join(a, b) ==
    IF a.exc # "none" THEN a
    ELSE IF b.exc # "none" THEN b
    ELSE Ok(a.val \o b.val)

\* a + b where b is one of a set of results
Concat(a, B) == {Join(a, b) : b \in B}

\* "Build payload to slave": the set of results (one, but for the bit patterns)
GenericPayload(g) ==
    LET address == _numToTwoByteArray(PyInt(g.registeraddress), 0, FALSE, FALSE)
        bits == _numToTwoByteArray(PyInt(NUMBER_OF_BITS), 0, FALSE, FALSE)
        registers == _numToTwoByteArray(PyInt(g.numberOfRegisters), 0, FALSE, FALSE)
        payloadformat == PayloadFormat(g)
    IN  IF g.functioncode \in {1, 2}
        THEN {Join(address, bits)}
        ELSE IF g.functioncode \in {3, 4}
        THEN {Join(address, registers)}
        ELSE IF g.functioncode = 5
        THEN Concat(address, _createBitpattern(g.functioncode, g.value))
        ELSE IF g.functioncode = 6
        THEN {Join(address,
                   _numToTwoByteArray(g.value, g.numberOfDecimals, FALSE, g.signed))}
        ELSE IF g.functioncode = 15
        THEN Concat(Join(Join(address, bits),
                         _numToOneByteArray(NUMBER_OF_BYTES_FOR_ONE_BIT)),
                    _createBitpattern(g.functioncode, g.value))
        ELSE IF g.functioncode # 16
        THEN {RaiseB("UnboundLocalError: payloadToSlave")}
        ELSE LET registerdata ==
                     IF payloadformat = PAYLOADFORMAT_REGISTER
                     THEN _numToTwoByteArray(g.value, g.numberOfDecimals, FALSE, g.signed)
                     ELSE _valuelistToBytestring(g.value, g.numberOfRegisters)
             IN  IF registerdata.exc # "none" THEN {registerdata}
                 ELSE {Join(Join(Join(address, registers),
                                 _numToOneByteArray(
                                     g.numberOfRegisters * _NUMBER_OF_BYTES_PER_REGISTER)),
                            registerdata)}

\* "Check the contents in the response payload": the first check that fails.
\* For function code 5 the write data given to _checkResponseWriteData is the
\* str of _createBitpattern, which its _checkString refuses: TypeError.
GenericResponseCheck(g, payloadFromSlave) ==
    IF g.functioncode \in {1, 2, 3, 4}
    THEN _checkResponseByteCount(payloadFromSlave)
    ELSE IF _checkResponseRegisterAddress(payloadFromSlave, g.registeraddress) # "none"
    THEN _checkResponseRegisterAddress(payloadFromSlave, g.registeraddress)
    ELSE IF g.functioncode = 5
    THEN IF _checkString(payloadFromSlave, 4, -1) # "none"
         THEN "ValueError: The payload is too short"
         ELSE "TypeError: The writedata should be a string"
    ELSE IF g.functioncode = 6
    THEN _checkResponseWriteData(payloadFromSlave,
            _numToTwoByteArray(g.value, g.numberOfDecimals, FALSE, g.signed).val)
    ELSE IF g.functioncode = 15
    THEN _checkResponseNumberOfRegisters(payloadFromSlave, NUMBER_OF_BITS)
    ELSE _checkResponseNumberOfRegisters(payloadFromSlave, g.numberOfRegisters)

\* "Calculate return value": the set of results (one, but for the bit values)
GenericReturn(g, payloadFromSlave) ==
    LET registerdata ==
            Slice(payloadFromSlave, NUMBER_OF_BYTES_BEFORE_REGISTERDATA, Len(payloadFromSlave))
        payloadformat == PayloadFormat(g)
    IN  IF g.functioncode \in {1, 2}
        THEN IF Len(registerdata) # NUMBER_OF_BYTES_FOR_ONE_BIT
             THEN {Raise("ValueError: The registerdata length does not match NUMBER_OF_BYTES_FOR_ONE_BIT")}
             ELSE _bitResponseToValue(registerdata)
        ELSE IF g.functioncode \in {3, 4}
        THEN IF Len(registerdata) # g.numberOfRegisters * _NUMBER_OF_BYTES_PER_REGISTER
             THEN {Raise("ValueError: The registerdata length does not match number of register bytes")}
             ELSE IF payloadformat = PAYLOADFORMAT_REGISTERS
             THEN {_bytearrayToValuelist(registerdata, g.numberOfRegisters)}
             ELSE {_twoByteStringToNum(registerdata, g.numberOfDecimals, g.signed)}
        ELSE {Return(PyNone)}

\* what _genericCommand does with the payload _performCommand returned, a
\* slice of what the transport's read returned and of its type: each check of
\* the response payload starts with _checkString(payload)
GenericFinish(g, payloadFromSlave, payloadType) ==
    IF _checkStringType(payloadType) # "none"
    THEN {Raise(_checkStringType(payloadType))}
    ELSE IF GenericResponseCheck(g, payloadFromSlave) # "none"
    THEN {Raise(GenericResponseCheck(g, payloadFromSlave))}
    ELSE GenericReturn(g, payloadFromSlave)

(***************************************************************************)
(* Communication implementation details                                    *)
(***************************************************************************)
DEFAULT_NUMBER_OF_BYTES_TO_READ == 1000

\* mutant: no fallback when the prediction raises
NumberOfBytesToRead_NoFallback(precalculate_read_size, mode, functioncode, payloadToSlave) ==
    IF precalculate_read_size
    THEN _predictResponseSize(mode, functioncode, payloadToSlave).val
    ELSE DEFAULT_NUMBER_OF_BYTES_TO_READ

\* "Calculate number of bytes to read": the default, or the predicted size
\* when precalculate_read_size is set and the prediction does not raise
NumberOfBytesToRead(precalculate_read_size, mode, functioncode, payloadToSlave) ==
    IF /\ precalculate_read_size
       /\ _predictResponseSize(mode, functioncode, payloadToSlave).exc = "none"
    THEN _predictResponseSize(mode, functioncode, payloadToSlave).val
    ELSE DEFAULT_NUMBER_OF_BYTES_TO_READ

\* _performCommand up to its call of _communicate: raises, or gives the
\* request frame (val) and the number of bytes to read (n) for the payload
PerformPrepare(self, functioncode, payloadToSlave) ==
    IF _checkFunctioncode(functioncode, NoList) # "none"
    THEN [exc |-> _checkFunctioncode(functioncode, NoList), val |-> <<>>, n |-> 0,
          payloadToSlave |-> payloadToSlave]
    ELSE LET request == _embedPayload(self.address, self.mode, functioncode, payloadToSlave)
         IN  IF request.exc # "none"
             THEN [exc |-> request.exc, val |-> <<>>, n |-> 0,
                   payloadToSlave |-> payloadToSlave]
             ELSE [exc |-> "none", val |-> request.val, payloadToSlave |-> payloadToSlave,
                   n |-> NumberOfBytesToRead(self.precalculate_read_size, self.mode,
                                             functioncode, payloadToSlave)]

BITTIMES_PER_CHARACTERTIME == 11

\* 3.5 as the fraction num / den
MINIMUM_SILENT_CHARACTERTIMES == [num |-> 35, den |-> 10]

\* mutant: the silent period between characters (1.5) for the one between frames
_calculate_minimum_silent_period_Short(baudrate) ==
    [num |-> 1000 * BITTIMES_PER_CHARACTERTIME * 15, den |-> baudrate * 10]

\* bittime * BITTIMES_PER_CHARACTERTIME * MINIMUM_SILENT_CHARACTERTIMES in
\* milliseconds, as the fraction num / den
_calculate_minimum_silent_period(baudrate) ==
    [num |-> 1000 * BITTIMES_PER_CHARACTERTIME * MINIMUM_SILENT_CHARACTERTIMES.num,
     den |-> baudrate * MINIMUM_SILENT_CHARACTERTIMES.den]

\* mutant: every call sleeps
NeedsSleep_Always(time_since_read, minimum_silent_period) == TRUE

\* time_since_read < minimum_silent_period
NeedsSleep(time_since_read, minimum_silent_period) ==
    time_since_read * minimum_silent_period.den < minimum_silent_period.num

\* sleep_time = minimum_silent_period - time_since_read, as a fraction
SleepTime(time_since_read, minimum_silent_period) ==
    [num |-> minimum_silent_period.num - time_since_read * minimum_silent_period.den,
     den |-> minimum_silent_period.den]

(***************************************************************************)
(* State                                                                   *)
(***************************************************************************)
VARIABLES
    now,                  \* the time, in units of 1 / UnitsPerMs milliseconds
    _LATEST_READ_TIMES,   \* port -> tick (ms) of the latest read on the port
    pc,                   \* idle, or where the call is: timing, write, echo, read, validate, done
    cur,                  \* the current (or last) call: instrument, arguments, request, answer
    outcome,              \* what the last call returned or raised
    io,                   \* what the current call did to the transport
    readBy,               \* port -> the instrument that made the latest read on the port
    fh,                   \* frame harness: a frame built, carried and validated
    pr,                   \* prediction harness: one call of _predictResponseSize
    nc,                   \* codec harness: a number or a list encoded and decoded
    sl,                   \* timing harness: the tick counter, a recorded read, one timing step
    rr,                   \* register harness: one read_registers call and the answer it gets
    th                    \* threads: the position of each thread in _communicate

vars == <<now, _LATEST_READ_TIMES, pc, cur, outcome, io, readBy, fh, pr, nc, sl, rr, th>>

txvars == <<now, _LATEST_READ_TIMES, pc, cur, outcome, io, readBy>>

(***************************************************************************)
(* The serial line                                                         *)
(***************************************************************************)
\* one bit of a frame flipped
FlipBit(frame, k, b) == [frame EXCEPT ![k] = BitXor(@, Pow(2, b))]

\* a frame of the slave: address, function code, body and a right or wrong CRC
SlaveFrame(a, f, body, crcOk) ==
    LET firstPart == <<a, f>> \o body
        crc == _calculateCrcString(firstPart)
    IN  firstPart \o (IF crcOk THEN crc ELSE <<crc[1], BitXor(crc[2], 1)>>)

(***************************************************************************)
(* The instruments, their callers and the slaves                           *)
(***************************************************************************)
BAUDRATE == 9600

\* time is counted in units of 1 / UnitsPerMs milliseconds, up to MaxTime
UnitsPerMs == 2

MaxTime == 22

\* two Instrument objects on the same serial port (UART 1), one at the
\* default baudrate
Instruments == {"i1", "i2"}

InstrumentPort(i) == IF i = "i3" THEN 2 ELSE 1

InstrumentBaudrate(i) == IF i = "i1" THEN BAUDRATE ELSE 2 * BAUDRATE

InstrumentAddress(i) == IF i = "i1" THEN 1 ELSE 2

\* the attributes of an instrument after __init__
AfterInit(i) ==
    [port |-> InstrumentPort(i), baudrate |-> InstrumentBaudrate(i),
     address |-> InstrumentAddress(i), mode |-> MODE_RTU,
     precalculate_read_size |-> TRUE, handle_local_echo |-> FALSE]

\* the attributes as a call finds them: as __init__ left them, or with one
\* attribute set by the caller since
Attributes(i) ==
    {AfterInit(i),
     [AfterInit(i) EXCEPT !.handle_local_echo = TRUE],
     [AfterInit(i) EXCEPT !.precalculate_read_size = FALSE],
     [AfterInit(i) EXCEPT !.address = 248],
     [AfterInit(i) EXCEPT !.mode = "ascii"]}

\* a call of a method with its arguments
MethodCall(op, functioncode, registeraddress, value, numberOfDecimals, numberOfRegisters, signed, payloadformat, payloadToSlave) ==
    [op |-> op, functioncode |-> functioncode, registeraddress |-> registeraddress,
     value |-> value, numberOfDecimals |-> numberOfDecimals,
     numberOfRegisters |-> numberOfRegisters, signed |-> signed,
     payloadformat |-> payloadformat, payloadToSlave |-> payloadToSlave]

read_registers(registeraddress, numberOfRegisters, functioncode) ==
    MethodCall("read_registers", functioncode, registeraddress, PyNone, 0,
               numberOfRegisters, FALSE, "None", <<>>)

write_register(registeraddress, value, numberOfDecimals, functioncode, signed) ==
    MethodCall("write_register", functioncode, registeraddress, value, numberOfDecimals,
               1, signed, "None", <<>>)

write_registers(registeraddress, values) ==
    MethodCall("write_registers", 16, registeraddress, PyList(values), 0, 1, FALSE,
               "None", <<>>)

_genericCommand(functioncode, registeraddress, value, numberOfDecimals, numberOfRegisters, signed, payloadformat) ==
    MethodCall("_genericCommand", functioncode, registeraddress, value, numberOfDecimals,
               numberOfRegisters, signed, payloadformat, <<>>)

_performCommand(functioncode, payloadToSlave) ==
    MethodCall("_performCommand", functioncode, 0, PyNone, 0, 1, FALSE, "None",
               payloadToSlave)

\* the calls made with the attributes of __init__: valid ones, and one for
\* each kind of wrong argument
Calls ==
    {read_registers(0, 1, 3),
     read_registers(0, 2, 4),
     read_registers(0, 0, 3),
     read_registers(0, 256, 3),
     read_registers(65536, 1, 3),
     read_registers(0, 1, 6),
     write_register(1, PyInt(42), 0, 6, FALSE),
     write_register(1, PyInt(42), 0, 16, FALSE),
     write_register(1, PyInt(65536), 0, 6, FALSE),
     write_register(1, PyInt(7000), 1, 16, FALSE),
     write_register(1, PyInt(-1), 0, 6, TRUE),
     write_register(1, PyInt(-1), 0, 16, TRUE),
     write_register(1, PyInt(42), 0, 3, FALSE),
     write_registers(0, <<1, 2>>),
     _genericCommand(16, 0, PyList(<<1, 2>>), 0, 3, FALSE, PAYLOADFORMAT_REGISTERS),
     _genericCommand(7, 0, PyNone, 0, 1, FALSE, "None"),
     _genericCommand(1, 0, PyNone, 0, 1, FALSE, "None"),
     _genericCommand(5, 0, PyInt(1), 0, 1, FALSE, "None"),
     _genericCommand(3, 0, PyNone, 1, 1, FALSE, "None"),
     _genericCommand(3, 0, PyNone, 0, 2, FALSE, "None"),
     _performCommand(3, <<0, 0, 0, 1>>),
     _performCommand(3, <<0, 0>>),
     _performCommand(7, <<>>),
     _performCommand(128, <<0, 0, 0, 1>>)}

\* the calls made with an attribute changed
CallsWithAttributes ==
    {read_registers(0, 1, 3),
     write_register(1, PyInt(42), 0, 6, FALSE),
     _performCommand(7, <<>>)}

\* the byte at position k (0-based) of a payload, 0 past its end
ByteAt(payload, k) == IF k < Len(payload) THEN payload[k + 1] ELSE 0

Repeat(s, n) == [k \in 1..(n * Len(s)) |-> s[((k - 1) % Len(s)) + 1]]

\* the response payload a slave gives to a request payload
SlaveBody(functioncode, payloadToSlave) ==
    LET count == ByteAt(payloadToSlave, 2) * 256 + ByteAt(payloadToSlave, 3)
    IN  IF functioncode \in {3, 4}
        THEN <<(2 * count) % 256>> \o Repeat(<<0, 42>>, count)
        ELSE IF functioncode \in {1, 2}
        THEN <<1, 1>>
        ELSE Slice(payloadToSlave, 0, 4)

\* a response payload that contradicts the request
SlaveWrongBody(functioncode, payloadToSlave) ==
    LET body == SlaveBody(functioncode, payloadToSlave)
    IN  IF body = <<>> THEN <<1>>
        ELSE [body EXCEPT ![Len(body)] = BitXor(@, 1)]

\* a response payload with its first byte changed: the byte count of a read,
\* the register address echoed by a write
SlaveWrongStart(functioncode, payloadToSlave) ==
    LET body == SlaveBody(functioncode, payloadToSlave)
    IN  IF body = <<>> THEN <<0>>
        ELSE [body EXCEPT ![1] = BitXor(@, 4)]

\* the response payload to a request for one register more
SlaveLongerBody(functioncode, payloadToSlave) ==
    LET count == ByteAt(payloadToSlave, 2) * 256 + ByteAt(payloadToSlave, 3) + 1
    IN  IF functioncode \in {3, 4}
        THEN <<(2 * count) % 256>> \o Repeat(<<0, 42>>, count)
        ELSE Slice(payloadToSlave, 0, 2) \o <<count \div 256, count % 256>>

\* what self.serial.read(number_of_bytes_to_read) may return: nothing, the
\* slave's answer, whole or cut short, with the bytes B8 58 for its CRC, from
\* another slave, with the error indication, or with a content that
\* contradicts the request
SlaveAnswers(self, functioncode, payloadToSlave, number_of_bytes_to_read) ==
    LET body == SlaveBody(functioncode, payloadToSlave)
        answers ==
            {<<>>,
             SlaveFrame(self.address, functioncode, body, TRUE),
             <<self.address, functioncode>> \o body \o <<184, 88>>,
             Slice(SlaveFrame(self.address, functioncode, body, TRUE), 0, 3),
             SlaveFrame((self.address + 1) % 256, functioncode, body, TRUE),
             SlaveFrame(self.address, _setBitOn(functioncode, 7), <<2>>, TRUE),
             SlaveFrame(self.address, functioncode,
                        SlaveWrongBody(functioncode, payloadToSlave), TRUE),
             SlaveFrame(self.address, functioncode,
                        SlaveWrongStart(functioncode, payloadToSlave), TRUE),
             SlaveFrame(self.address, functioncode,
                        SlaveLongerBody(functioncode, payloadToSlave), TRUE)}
    IN  {a \in answers : Len(a) <= number_of_bytes_to_read}

\* the type of what self.serial.read returns: the bytearray the checks of the
\* payload ask for, or bytes
ReadTypes == {"bytearray", "bytes"}

\* what self.serial.read(len(request)) may return for the local echo
EchoAnswers(request) ==
    {request, Slice(request, 0, Len(request) - 1), FlipBit(request, 1, 0)}

(***************************************************************************)
(* Transactions: a method is called on an instrument, _communicate waits    *)
(* for the silent period, writes the request, reads the local echo and the  *)
(* response, and the response is validated                                  *)
(***************************************************************************)
\* a harness that is not in use
FrameParked == [stage |-> "parked"]

PredictParked == [stage |-> "parked"]

CodecParked == [stage |-> "parked"]

SleepParked == [stage |-> "parked"]

ServeParked == [stage |-> "parked"]

ThreadsParked == [stage |-> "parked"]

NoCall ==
    [inst |-> "none", self |-> AfterInit("i1"), call |-> _performCommand(1, <<>>),
     g |-> _performCommand(1, <<>>), payloadToSlave |-> <<>>, request |-> <<>>,
     number_of_bytes_to_read |-> 0, answer |-> <<>>, answerType |-> "bytearray"]

NoOutcome == [exc |-> "no call", val |-> PyNone]

Pending == [exc |-> "pending", val |-> PyNone]

\* what the current call did to the transport so far
NoIo ==
    [written |-> <<>>, echoSizes |-> <<>>, echoes |-> <<>>, readSizes |-> <<>>, extractCalls |-> 0,
     latestAtCall |-> <<>>, calledAt |-> 0,
     lastWrite |-> [at |-> 0, known |-> FALSE, stamp |-> 0, baudrate |-> BAUDRATE]]

PyBytes(b) == [t |-> "bytes", n |-> 0, d |-> 0, l |-> b, short |-> FALSE]

\* time.ticks_ms()
ticks_ms == now \div UnitsPerMs

\* mutant: the latest read of any port counts
LatestReadTime_AnyPort(port) ==
    IF DOMAIN _LATEST_READ_TIMES = {} THEN 0
    ELSE CHOOSE t \in {_LATEST_READ_TIMES[p] : p \in DOMAIN _LATEST_READ_TIMES} :
            \A p \in DOMAIN _LATEST_READ_TIMES : _LATEST_READ_TIMES[p] <= t

\* _LATEST_READ_TIMES.get(port, 0)
LatestReadTime(port) ==
    IF port \in DOMAIN _LATEST_READ_TIMES THEN _LATEST_READ_TIMES[port] ELSE 0

\* the time units a sleep of sleep_time milliseconds lasts at least
UnitsOf(sleep_time) ==
    (sleep_time.num * UnitsPerMs + sleep_time.den - 1) \div sleep_time.den

\* a blocking call may return later than it has to
Overshoot == {0, 1}

\* mutant: only the length of the local echo is compared
EchoDiffers_LengthOnly(localEchoToDiscard, request) == Len(localEchoToDiscard) # Len(request)

\* "if localEchoToDiscard != request"
EchoDiffers(localEchoToDiscard, request) == localEchoToDiscard # request

\* mutant: the empty answer is not noticed
NoAnswer_Never(answer) == FALSE

\* mutant: an answer shorter than the shortest frame counts as no answer
NoAnswer_UnderMinimum(answer) == Len(answer) < 7

\* "if len(answer) == 0"
NoAnswer(answer) == Len(answer) = 0

\* mutant: a call that got no answer tries again
PcAfterRaise_Retry(at) == IF at = "read" THEN "timing" ELSE "done"

\* mutant: a response that fails validation is read again
PcAfterRaise_Reread(at) == IF at = "validate" THEN "read" ELSE "done"

\* where the control is after a raise: back in the caller, nothing is retried
PcAfterRaise(at) == "done"

\* a method up to the call of _communicate: the set of its results, each a
\* raise or the payload, the request frame (val) and the size to read (n)
CallPrepare(self, call) ==
    LET raised(e) == [exc |-> e, val |-> <<>>, n |-> 0, payloadToSlave |-> <<>>]
        g == GenericArguments(call)
    IN  IF call.op = "_performCommand"
        THEN {PerformPrepare(self, call.functioncode, call.payloadToSlave)}
        ELSE IF FacadeCheck(call) # "none" THEN {raised(FacadeCheck(call))}
        ELSE IF GenericCheck(g) # "none" THEN {raised(GenericCheck(g))}
        ELSE {IF p.exc # "none" THEN raised(p.exc) ELSE PerformPrepare(self, g.functioncode, p.val) :
                p \in GenericPayload(g)}

\* the caller lets time pass
Wait ==
    /\ pc = "idle"
    /\ now < MaxTime
    /\ now' = now + 1
    /\ UNCHANGED <<_LATEST_READ_TIMES, pc, cur, outcome, io, readBy, fh, pr, nc, sl, rr, th>>

\* the caller has the result of the call
Retire ==
    /\ pc = "done"
    /\ pc' = "idle"
    /\ cur' = NoCall
    /\ outcome' = NoOutcome
    /\ io' = NoIo
    /\ UNCHANGED <<now, _LATEST_READ_TIMES, readBy, fh, pr, nc, sl, rr, th>>

\* a method is called: it raises before any communication, or reaches
\* _communicate with the request and the number of bytes to read
Call ==
    /\ pc = "idle"
    /\ \E i \in Instruments, call \in Calls : \E self \in Attributes(i) :
          /\ self = AfterInit(i) \/ call \in CallsWithAttributes
          /\ now + UnitsOf(_calculate_minimum_silent_period(self.baudrate)) + 2 <= MaxTime
          /\ \E r \in CallPrepare(self, call) :
                /\ cur' = [inst |-> i, self |-> self, call |-> call,
                           g |-> GenericArguments(call),
                           payloadToSlave |-> r.payloadToSlave, request |-> r.val,
                           number_of_bytes_to_read |-> r.n, answer |-> <<>>,
                           answerType |-> "bytearray"]
                /\ io' = [NoIo EXCEPT !.latestAtCall = _LATEST_READ_TIMES, !.calledAt = now]
                /\ IF r.exc # "none"
                   THEN /\ outcome' = Raise(r.exc)
                        /\ pc' = PcAfterRaise("call")
                   ELSE /\ outcome' = Pending
                        /\ pc' = "timing"
    /\ UNCHANGED <<now, _LATEST_READ_TIMES, readBy, fh, pr, nc, sl, rr, th>>

\* "Sleep to make sure 3.5 character times have passed": too little time
\* since the latest read on the port, time.sleep_ms(sleep_time)
CommunicateSleep ==
    /\ pc = "timing"
    /\ LET minimum_silent_period == _calculate_minimum_silent_period(cur.self.baudrate)
           time_since_read == ticks_ms - LatestReadTime(cur.self.port)
       IN  /\ NeedsSleep(time_since_read, minimum_silent_period)
           /\ \E late \in Overshoot :
                 now' = now + UnitsOf(SleepTime(time_since_read, minimum_silent_period)) + late
    /\ now' <= MaxTime
    /\ pc' = "write"
    /\ UNCHANGED <<_LATEST_READ_TIMES, cur, outcome, io, readBy, fh, pr, nc, sl, rr, th>>

\* enough time since the latest read: no sleep
CommunicateNoSleep ==
    /\ pc = "timing"
    /\ ~NeedsSleep(ticks_ms - LatestReadTime(cur.self.port),
                   _calculate_minimum_silent_period(cur.self.baudrate))
    /\ pc' = "write"
    /\ UNCHANGED <<now, _LATEST_READ_TIMES, cur, outcome, io, readBy, fh, pr, nc, sl, rr, th>>

\* "Write request": self.serial.write(request)
CommunicateWrite ==
    /\ pc = "write"
    /\ io' = [io EXCEPT !.written = Append(@, cur.request),
                !.lastWrite = [at |-> now,
                               known |-> cur.self.port \in DOMAIN _LATEST_READ_TIMES,
                               stamp |-> LatestReadTime(cur.self.port),
                               baudrate |-> cur.self.baudrate]]
    /\ pc' = IF cur.self.handle_local_echo THEN "echo" ELSE "read"
    /\ UNCHANGED <<now, _LATEST_READ_TIMES, cur, outcome, readBy, fh, pr, nc, sl, rr, th>>

\* "Read and discard local echo"
CommunicateEcho ==
    /\ pc = "echo"
    /\ \E localEchoToDiscard \in EchoAnswers(cur.request) :
          /\ io' = [io EXCEPT !.echoSizes = Append(@, Len(cur.request)),
                              !.echoes = Append(@, localEchoToDiscard)]
          /\ IF EchoDiffers(localEchoToDiscard, cur.request)
             THEN /\ outcome' = Raise("IOError: the local echo does not match the sent request")
                  /\ pc' = PcAfterRaise("echo")
             ELSE /\ pc' = "read"
                  /\ UNCHANGED outcome
    /\ UNCHANGED <<now, _LATEST_READ_TIMES, cur, readBy, fh, pr, nc, sl, rr, th>>

\* mutant: the read is not recorded
RecordRead_Never(port, tick) == _LATEST_READ_TIMES

\* mutant: the time of the write is recorded instead of the time of the read
RecordRead_WriteTime(port, tick) ==
    (port :> (io.lastWrite.at \div UnitsPerMs)) @@ _LATEST_READ_TIMES

\* "_LATEST_READ_TIMES[self.port] = time.ticks_ms()"
RecordRead(port, tick) == (port :> tick) @@ _LATEST_READ_TIMES

\* "Read response": the read returns, the time of the read is recorded for
\* the port, an empty answer raises
CommunicateRead ==
    /\ pc = "read"
    /\ \E answer \in SlaveAnswers(cur.self, cur.g.functioncode, cur.payloadToSlave,
                                  cur.number_of_bytes_to_read),
          answerType \in ReadTypes,
          late \in Overshoot :
          /\ now' = now + late
          /\ _LATEST_READ_TIMES' = RecordRead(cur.self.port, now' \div UnitsPerMs)
          /\ readBy' = (cur.self.port :> cur.inst) @@ readBy
          /\ io' = [io EXCEPT !.readSizes = Append(@, cur.number_of_bytes_to_read)]
          /\ cur' = [cur EXCEPT !.answer = answer, !.answerType = answerType]
          /\ IF NoAnswer(answer)
             THEN /\ outcome' = Raise("IOError: No communication with the instrument (no answer)")
                  /\ pc' = PcAfterRaise("read")
             ELSE /\ pc' = "validate"
                  /\ UNCHANGED outcome
    /\ now' <= MaxTime
    /\ UNCHANGED <<fh, pr, nc, sl, rr, th>>

\* "Extract payload", and for _genericCommand the checks of the response
\* payload and the return value
Validate ==
    /\ pc = "validate"
    /\ io' = [io EXCEPT !.extractCalls = @ + 1]
    /\ LET payloadFromSlave == _extractPayload(cur.answer, cur.self.address,
                                               cur.self.mode, cur.g.functioncode)
       IN  IF payloadFromSlave.exc # "none"
           THEN /\ outcome' = Raise(payloadFromSlave.exc)
                /\ pc' = PcAfterRaise("validate")
           ELSE IF cur.call.op = "_performCommand"
           THEN /\ outcome' = Return(PyBytes(payloadFromSlave.val))
                /\ pc' = "done"
           ELSE /\ outcome' \in GenericFinish(cur.g, payloadFromSlave.val, cur.answerType)
                /\ pc' = IF outcome'.exc # "none" THEN PcAfterRaise("validate") ELSE "done"
    /\ UNCHANGED <<now, _LATEST_READ_TIMES, cur, readBy, fh, pr, nc, sl, rr, th>>

Init ==
    /\ now = 0
    /\ _LATEST_READ_TIMES = <<>>
    /\ pc = "idle"
    /\ cur = NoCall
    /\ outcome = NoOutcome
    /\ io = NoIo
    /\ readBy = <<>>
    /\ fh = FrameParked
    /\ pr = PredictParked
    /\ nc = CodecParked
    /\ sl = SleepParked
    /\ rr = ServeParked
    /\ th = ThreadsParked

Next ==
    \/ Wait
    \/ Call
    \/ Retire
    \/ CommunicateSleep
    \/ CommunicateNoSleep
    \/ CommunicateWrite
    \/ CommunicateEcho
    \/ CommunicateRead
    \/ Validate

\* the transaction state while a harness runs
TxParked ==
    /\ now = 0
    /\ _LATEST_READ_TIMES = <<>>
    /\ pc = "parked"
    /\ cur = NoCall
    /\ outcome = NoOutcome
    /\ io = NoIo
    /\ readBy = <<>>

(***************************************************************************)
(* Frames: _embedPayload builds a frame, the line carries it or the slave   *)
(* answers, _extractPayload validates what arrives                          *)
(***************************************************************************)
MaxPayloadLen == 2

FrameBytes == {0, 1, 255}

FrameAddresses == {0, 1, 247, 248}

FrameFunctioncodes == {1, 3, 16, 127, 128}

RECURSIVE ByteStrings(_, _)
\* the byte strings over B of length at most n
ByteStrings(B, n) ==
    IF n = 0 THEN {<<>>}
    ELSE LET shorter == ByteStrings(B, n - 1)
         IN  shorter \cup {Append(s, b) : s \in {t \in shorter : Len(t) = n - 1}, b \in B}

FrameInit ==
    /\ pr = PredictParked
    /\ nc = CodecParked
    /\ TxParked
    /\ sl = SleepParked
    /\ rr = ServeParked
    /\ th = ThreadsParked
    /\ fh \in [stage : {"args"}, slaveaddress : FrameAddresses,
            functioncode : FrameFunctioncodes,
            payloaddata : ByteStrings(FrameBytes, MaxPayloadLen),
            request : {Ok(<<>>)}, response : {<<>>}, extracted : {Ok(<<>>)}]

\* the request frame is built
FrameEmbed ==
    /\ fh.stage = "args"
    /\ fh' = [fh EXCEPT !.stage = "built",
                !.request = _embedPayload(fh.slaveaddress, MODE_RTU,
                                          fh.functioncode, fh.payloaddata)]
    /\ UNCHANGED <<txvars, pr, nc, sl, rr, th>>

\* the frame arrives as it was sent
FrameLoopback ==
    /\ fh.stage = "built"
    /\ fh.request.exc = "none"
    /\ fh' = [fh EXCEPT !.stage = "received", !.response = fh.request.val]
    /\ UNCHANGED <<txvars, pr, nc, sl, rr, th>>

\* the frame arrives with one bit flipped
FrameFlip ==
    /\ fh.stage = "built"
    /\ fh.request.exc = "none"
    /\ \E i \in 1..Len(fh.request.val), b \in 0..7 :
          fh' = [fh EXCEPT !.stage = "received",
                    !.response = FlipBit(fh.request.val, i, b)]
    /\ UNCHANGED <<txvars, pr, nc, sl, rr, th>>

\* the slave answers: any address, function code, CRC, whole or cut short
FrameReply ==
    /\ fh.stage = "built"
    /\ \E a \in {fh.slaveaddress, 2},
          f \in {fh.functioncode, _setBitOn(fh.functioncode % 128, 7), 4},
          crcOk \in BOOLEAN,
          cut \in {1, 3, 4 + MaxPayloadLen + 1} :
          fh' = [fh EXCEPT !.stage = "received",
                    !.response = Slice(SlaveFrame(a, f, fh.payloaddata, crcOk), 0, cut)]
    /\ UNCHANGED <<txvars, pr, nc, sl, rr, th>>

\* the response is validated
FrameExtract ==
    /\ fh.stage = "received"
    /\ fh' = [fh EXCEPT !.stage = "extracted",
                !.extracted = _extractPayload(fh.response, fh.slaveaddress,
                                              MODE_RTU, fh.functioncode)]
    /\ UNCHANGED <<txvars, pr, nc, sl, rr, th>>

FrameNext == FrameEmbed \/ FrameLoopback \/ FrameFlip \/ FrameReply \/ FrameExtract

(***************************************************************************)
(* Prediction: one call of _predictResponseSize                            *)
(***************************************************************************)
MaxPredictLen == 4

PredictFunctioncodes == {1, 2, 3, 4, 5, 6, 7, 15, 16, 127}

PredictInit ==
    /\ fh = FrameParked
    /\ nc = CodecParked
    /\ TxParked
    /\ sl = SleepParked
    /\ rr = ServeParked
    /\ th = ThreadsParked
    /\ pr \in [stage : {"args"}, functioncode : PredictFunctioncodes,
            payloadToSlave : ByteStrings(FrameBytes, MaxPredictLen),
            size : {Ok(0)}]

PredictCall ==
    /\ pr.stage = "args"
    /\ pr' = [pr EXCEPT !.stage = "returned",
                !.size = _predictResponseSize(MODE_RTU, pr.functioncode,
                                              pr.payloadToSlave)]
    /\ UNCHANGED <<txvars, fh, nc, sl, rr, th>>

(***************************************************************************)
(* Codecs: a number through _numToTwoByteArray and _twoByteStringToNum, a    *)
(* list through _valuelistToBytestring and _bytearrayToValuelist             *)
(***************************************************************************)
MaxListLen == 2

\* the values given to _numToTwoByteArray: integers and floats at and around
\* the ends of the 16-bit ranges, with and without an exact binary
\* representation, and a value that is no number
NumberValues ==
    {PyInt(n) : n \in {0, 1, 42, 32767, 32768, 65535, 65536, -1, -32768, -32769}}
    \cup {PyFloat(15, 1), PyFloat(-15, 1), PyFloat(-5, 1), PyFloat(65535, 1),
          PyFloat(655355, 1), PyFloat(-327685, 1), PyFloat(129, 2), PyFloat(29, 2),
          PyFloatShort(29, 2), PyFloatShort(-29, 2), PyFloat(1, 3)}
    \cup {PyNone}

CodecDecimals == {0, 1, 2, 3, 10}

ListValues == {0, 511, 65535, 65536}

RECURSIVE ValueLists(_)
\* the lists over ListValues of length at most n
ValueLists(n) ==
    IF n = 0 THEN {<<>>}
    ELSE LET shorter == ValueLists(n - 1)
         IN  shorter \cup {Append(s, v) : s \in {t \in shorter : Len(t) = n - 1},
                                           v \in ListValues}

RECURSIVE RegisterBytes(_)
\* the registers of a slave holding the values of a list, as it sends them
RegisterBytes(valuelist) ==
    IF valuelist = <<>> THEN <<>>
    ELSE << (Head(valuelist) % 65536) \div 256, Head(valuelist) % 256 >>
         \o RegisterBytes(Tail(valuelist))

CodecInit ==
    /\ fh = FrameParked
    /\ pr = PredictParked
    /\ TxParked
    /\ sl = SleepParked
    /\ rr = ServeParked
    /\ th = ThreadsParked
    /\ nc \in [stage : {"args"}, op : {"number"}, value : NumberValues,
               numberOfDecimals : CodecDecimals, signed : BOOLEAN,
               valuelist : {<<>>}, numberOfRegisters : {0},
               encoded : {Ok(<<>>)}, bytestring : {<<>>}, decoded : {Return(PyNone)}]
          \cup
             [stage : {"args"}, op : {"list"}, value : {PyNone},
               numberOfDecimals : {0}, signed : {FALSE},
               valuelist : ValueLists(MaxListLen), numberOfRegisters : 0..(MaxListLen + 1),
               encoded : {Ok(<<>>)}, bytestring : {<<>>}, decoded : {Return(PyNone)}]

\* the number is encoded
CodecEncode ==
    /\ nc.stage = "args"
    /\ nc.op = "number"
    /\ nc' = [nc EXCEPT !.stage = "encoded",
                !.encoded = _numToTwoByteArray(nc.value, nc.numberOfDecimals,
                                               FALSE, nc.signed)]
    /\ UNCHANGED <<txvars, fh, pr, sl, rr, th>>

\* the two bytes are decoded
CodecDecode ==
    /\ nc.stage = "encoded"
    /\ nc.op = "number"
    /\ nc.encoded.exc = "none"
    /\ nc' = [nc EXCEPT !.stage = "decoded",
                !.bytestring = nc.encoded.val,
                !.decoded = _twoByteStringToNum(nc.encoded.val, nc.numberOfDecimals,
                                                nc.signed)]
    /\ UNCHANGED <<txvars, fh, pr, sl, rr, th>>

\* the list is encoded
ListEncode ==
    /\ nc.stage = "args"
    /\ nc.op = "list"
    /\ nc' = [nc EXCEPT !.stage = "encoded",
                !.encoded = _valuelistToBytestring(PyList(nc.valuelist),
                                                   nc.numberOfRegisters)]
    /\ UNCHANGED <<txvars, fh, pr, sl, rr, th>>

\* the registers holding the list, whole, cut short or with a byte more, are
\* decoded
ListDecode ==
    /\ nc.stage = "encoded"
    /\ nc.op = "list"
    /\ \E bytestring \in {RegisterBytes(nc.valuelist),
                          Slice(RegisterBytes(nc.valuelist), 0,
                                Len(RegisterBytes(nc.valuelist)) - 1),
                          RegisterBytes(nc.valuelist) \o <<0>>} :
          nc' = [nc EXCEPT !.stage = "decoded",
                    !.bytestring = bytestring,
                    !.decoded = _bytearrayToValuelist(bytestring, nc.numberOfRegisters)]
    /\ UNCHANGED <<txvars, fh, pr, sl, rr, th>>

CodecNext == CodecEncode \/ CodecDecode \/ ListEncode \/ ListDecode

(***************************************************************************)
(* Properties                                                              *)
(***************************************************************************)
\* the arguments of the frame harness are in the ranges the frame functions accept
FrameArgumentsValid ==
    /\ fh.slaveaddress \in 0..247
    /\ fh.functioncode \in 1..127

\* the response's last two bytes are the CRC of the bytes before them
ResponseCrcValid ==
    /\ Len(fh.response) >= 4
    /\ SubSeq(fh.response, Len(fh.response) - 1, Len(fh.response))
         = _calculateCrcString(SubSeq(fh.response, 1, Len(fh.response) - 2))

\* C1: for an address in [0,247], a function code in [1,127] and any payload B,
\* _embedPayload succeeds, and _extractPayload of the frame it built, with the
\* same address and function code, returns exactly B.
C1_RoundTrip ==
    FrameArgumentsValid =>
        /\ fh.stage # "args" => fh.request.exc = "none"
        /\ (fh.stage = "extracted" /\ fh.response = fh.request.val)
              => fh.extracted = Ok(fh.payloaddata)

C1_Witness ==
    /\ fh.stage = "extracted"
    /\ fh.slaveaddress = 247
    /\ fh.functioncode = 127
    /\ Len(fh.payloaddata) >= 2
    /\ fh.response = fh.request.val
    /\ fh.extracted = Ok(fh.payloaddata)

\* C3: _extractPayload reports the first failing check in the order length,
\* checksum, slave address: a response under 4 bytes is the too-short error
\* whatever its bytes, a wrong CRC is the checksum error whatever the address
\* and function code, a valid CRC with a wrong address is the address error
\* whatever the function code.
C3_CheckOrder ==
    (fh.stage = "extracted" /\ FrameArgumentsValid) =>
        /\ Len(fh.response) < 4
              => fh.extracted.exc = "ValueError: Too short Modbus RTU response"
        /\ (Len(fh.response) >= 4 /\ ~ResponseCrcValid)
              => fh.extracted.exc = "ValueError: Checksum error"
        /\ (ResponseCrcValid /\ fh.response[1] # fh.slaveaddress)
              => fh.extracted.exc = "ValueError: Wrong return slave address"

C3_Witness ==
    /\ fh.stage = "extracted"
    /\ FrameArgumentsValid
    /\ ResponseCrcValid
    /\ fh.response[1] # fh.slaveaddress
    /\ fh.response[2] # fh.functioncode
    /\ fh.extracted.exc = "ValueError: Wrong return slave address"

\* C4: a response of at least 4 bytes with a valid CRC, the expected slave
\* address and the requested function code with bit 7 set makes _extractPayload
\* fail with the slave-reported error: no payload, no function code mismatch.
C4_SlaveException ==
    (/\ fh.stage = "extracted"
     /\ FrameArgumentsValid
     /\ ResponseCrcValid
     /\ fh.response[1] = fh.slaveaddress
     /\ fh.response[2] = fh.functioncode + 128)
        => fh.extracted = RaiseB("ValueError: The slave is indicating an error")

C4_Witness ==
    /\ fh.stage = "extracted"
    /\ fh.functioncode = 3
    /\ fh.slaveaddress = 1
    /\ ResponseCrcValid
    /\ fh.response[1] = 1
    /\ fh.response[2] = 131
    /\ fh.extracted.exc = "ValueError: The slave is indicating an error"

\* C10: for function codes 3 and 4 and a request payload of at least 4 bytes
\* whose bytes 2-3 hold the register count R big-endian, _predictResponseSize
\* returns 2 + 1 + 2*R + 2.
C10_RegisterReadSize ==
    (/\ pr.stage = "returned"
     /\ pr.functioncode \in {3, 4}
     /\ Len(pr.payloadToSlave) >= 4)
        => pr.size = Ok(2 + 1 + 2 * (pr.payloadToSlave[3] * 256 + pr.payloadToSlave[4]) + 2)

C10_Witness ==
    /\ pr.stage = "returned"
    /\ pr.functioncode = 4
    /\ Len(pr.payloadToSlave) >= 4
    /\ pr.payloadToSlave[3] = 255
    /\ pr.payloadToSlave[4] = 255
    /\ pr.size = Ok(131075)

\* the least time, in time units times the baudrate, between a read and the
\* next write: 3.5 character times of 11 bit times of 1000 / baudrate ms
SilentUnitsTimesBaudrate == (7 * 11 * 1000 * UnitsPerMs) \div 2

\* C2: every request write on a port happens no earlier than the minimum
\* silent period after the time stamp recorded for the latest read on that
\* port, whichever instrument made that read.
C2_SilentPeriod ==
    (io.written # <<>> /\ io.lastWrite.known) =>
        (io.lastWrite.at - io.lastWrite.stamp * UnitsPerMs) * io.lastWrite.baudrate
            >= SilentUnitsTimesBaudrate

\* a call of i2 that had to wait for the silent period after a read of i1
C2_Witness ==
    /\ pc = "read"
    /\ cur.inst = "i2"
    /\ cur.self.port \in DOMAIN readBy
    /\ readBy[cur.self.port] = "i1"
    /\ io.lastWrite.known
    /\ io.lastWrite.at > io.calledAt
    /\ (io.calledAt - io.lastWrite.stamp * UnitsPerMs) * io.lastWrite.baudrate
          < SilentUnitsTimesBaudrate

\* C5: when the response read returns no byte the call raises the "no answer"
\* IOError of _communicate and _extractPayload is not called.
C5_NoAnswer ==
    (io.readSizes # <<>> /\ cur.answer = <<>>) =>
        /\ pc = "done"
        /\ outcome.exc = "IOError: No communication with the instrument (no answer)"
        /\ io.extractCalls = 0

C5_Witness ==
    /\ pc = "done"
    /\ io.readSizes # <<>>
    /\ cur.answer = <<>>
    /\ outcome.exc = "IOError: No communication with the instrument (no answer)"

\* the call has raised
Failed == outcome.exc \notin {"none", "pending", "no call"}

\* C6: a call writes the request at most once and issues at most one response
\* read; a call that has raised is over, it does no further write or read.
C6_SingleAttempt ==
    /\ Len(io.written) <= 1
    /\ Len(io.readSizes) <= 1
    /\ Failed => pc = "done"

\* a call that wrote, read and then failed
C6_Witness ==
    /\ pc = "done"
    /\ Failed
    /\ Len(io.written) = 1
    /\ Len(io.readSizes) = 1
    /\ outcome.exc = "ValueError: Checksum error"

\* the scaled integer of the value of a register write
ScaledValue(c) == c.call.value.n * Pow(10, c.call.numberOfDecimals)

\* the call has an argument outside its domain
BadArguments(c) ==
    \/ c.call.op = "write_register" /\ c.call.functioncode \notin {6, 16}
    \/ c.call.op = "read_registers" /\ c.call.functioncode \notin {3, 4}
    \/ c.call.op = "_genericCommand" /\ c.call.functioncode \notin {1, 2, 3, 4, 5, 6, 15, 16}
    \/ c.call.op = "_performCommand" /\ c.call.functioncode \notin 1..127
    \/ c.call.op # "_performCommand" /\ c.call.registeraddress \notin 0..65535
    \/ c.call.op \in {"read_registers", "_genericCommand"}
          /\ c.call.numberOfRegisters \notin 1..255
    \/ c.call.value.t = "list" /\ c.g.numberOfRegisters # Len(c.call.value.l)
    \/ c.call.value.t = "int" /\ ~c.call.signed /\ c.call.functioncode \in {6, 16}
          /\ ScaledValue(c) \notin 0..65535
    \/ c.call.value.t = "int" /\ c.call.signed /\ c.call.functioncode \in {6, 16}
          /\ ScaledValue(c) \notin (-32768)..32767
    \/ c.self.address \notin 0..247

ArgumentErrors ==
    {"ValueError: Wrong function code", "ValueError: functioncode out of range",
     "ValueError: registeraddress out of range", "ValueError: number of registers",
     "ValueError: The list length does not match number of registers",
     "ValueError: The value to send is probably out of range",
     "ValueError: slaveaddress out of range"}

\* the call has not touched the transport nor the latest read times
NoIoDone ==
    /\ io.written = <<>>
    /\ io.echoSizes = <<>>
    /\ io.readSizes = <<>>
    /\ _LATEST_READ_TIMES = io.latestAtCall

\* C7: a call with an argument outside its domain raises before the transport
\* is written to or read from, and leaves the latest read time of the port as
\* it was; so does every call that raises an argument error.
C7_ArgumentErrorsBeforeIo ==
    /\ (pc # "idle" /\ BadArguments(cur)) => (pc = "done" /\ Failed /\ NoIoDone)
    /\ outcome.exc \in ArgumentErrors => NoIoDone

\* a call with a slave address out of range, after an earlier read on the port
C7_Witness ==
    /\ pc = "done"
    /\ cur.self.address = 248
    /\ outcome.exc = "ValueError: slaveaddress out of range"
    /\ cur.self.port \in DOMAIN _LATEST_READ_TIMES
    /\ NoIoDone

\* the size prediction of the current call ran and raised
PredictionRaised ==
    /\ pc \notin {"idle", "parked"}
    /\ cur.request # <<>>
    /\ cur.self.precalculate_read_size
    /\ _predictResponseSize(cur.self.mode, cur.g.functioncode, cur.payloadToSlave).exc # "none"

\* the size prediction of the current call ran and returned
PredictionReturned ==
    /\ pc \notin {"idle", "parked"}
    /\ cur.request # <<>>
    /\ cur.self.precalculate_read_size
    /\ _predictResponseSize(cur.self.mode, cur.g.functioncode, cur.payloadToSlave).exc = "none"

\* C8 as stated: when the prediction raises the call still writes the request
\* and issues exactly one response read of 1000 bytes.
C8_Original ==
    (pc = "done" /\ PredictionRaised) =>
        (Len(io.written) = 1 /\ io.readSizes = <<1000>>)

\* C8 amended: when the prediction raises the call is not aborted by it: it
\* writes the request and, unless the local echo check fails, issues exactly
\* one response read, of 1000 bytes; when the prediction returns, a response
\* read is of the predicted size.
C8_FallbackReadSize ==
    /\ PredictionRaised =>
          /\ pc \in {"echo", "read", "validate", "done"} => Len(io.written) = 1
          /\ io.readSizes \in {<<>>, <<1000>>}
          /\ (pc = "done" /\ outcome.exc # "IOError: the local echo does not match the sent request")
                => io.readSizes = <<1000>>
    /\ PredictionReturned =>
          io.readSizes \in
              {<<>>, <<_predictResponseSize(cur.self.mode, cur.g.functioncode,
                                            cur.payloadToSlave).val>>}

\* the prediction raised and the response read asked for 1000 bytes
C8_Witness ==
    /\ pc = "validate"
    /\ PredictionRaised
    /\ Len(io.written) = 1
    /\ io.readSizes = <<1000>>

\* the function codes of the frames the current call wrote
WrittenFunctioncodes == {io.written[k][2] : k \in 1..Len(io.written)}

\* C9 as stated: no call writes a frame with a function code outside the
\* implemented set.
C9_Original == WrittenFunctioncodes \subseteq {1, 2, 3, 4, 5, 6, 15, 16}

\* C9 amended: _genericCommand rejects a function code outside the implemented
\* set and writes no frame for it; _performCommand called directly rejects only
\* a function code outside [1,127].
C9_GenericRejectsUnknown ==
    /\ cur.call.op # "_performCommand"
          => WrittenFunctioncodes \subseteq {1, 2, 3, 4, 5, 6, 15, 16}
    /\ (cur.call.op = "_genericCommand"
          /\ cur.call.functioncode \notin {1, 2, 3, 4, 5, 6, 15, 16}
          /\ pc # "idle")
          => (pc = "done" /\ Failed /\ io.written = <<>>)
    /\ WrittenFunctioncodes \subseteq 1..127

C9_Witness ==
    /\ pc = "done"
    /\ cur.call.op = "_genericCommand"
    /\ cur.call.functioncode = 7
    /\ outcome.exc = "ValueError: Wrong function code"
    /\ io.written = <<>>

\* the response is the request with exactly one bit flipped
OneBitFlipped ==
    /\ fh.request.exc = "none"
    /\ Len(fh.response) = Len(fh.request.val)
    /\ \E k \in 1..Len(fh.response) :
          /\ \E b \in 0..7 : fh.response[k] = BitXor(fh.request.val[k], Pow(2, b))
          /\ \A j \in 1..Len(fh.response) : j # k => fh.response[j] = fh.request.val[j]

\* C11: a frame built by _embedPayload with one bit flipped, in any of its
\* bytes, makes _extractPayload with the same address and function code raise
\* the checksum error, no other error and no payload.
C11_BitFlipIsChecksumError ==
    (FrameArgumentsValid /\ fh.stage = "extracted" /\ OneBitFlipped)
        => fh.extracted = RaiseB("ValueError: Checksum error")

\* the error bit of the function code byte was flipped: not the slave error
C11_Witness ==
    /\ FrameArgumentsValid
    /\ fh.stage = "extracted"
    /\ OneBitFlipped
    /\ Len(fh.payloaddata) = MaxPayloadLen
    /\ fh.response[2] = fh.functioncode + 128
    /\ fh.extracted.exc = "ValueError: Checksum error"

\* C12: with handle_local_echo set, after the write exactly len(request) bytes
\* are read back; when they differ from the request, in a byte or in length,
\* the call raises the echo IOError, the response read is not issued and
\* _extractPayload is not called; when they are equal the call goes on to the
\* response read.
C12_LocalEcho ==
    /\ (cur.self.handle_local_echo /\ io.written # <<>> /\ pc \in {"read", "validate", "done"})
          => io.echoSizes = <<Len(cur.request)>>
    /\ (io.echoes # <<>> /\ io.echoes[1] # cur.request)
          => /\ pc = "done"
             /\ outcome.exc = "IOError: the local echo does not match the sent request"
             /\ io.readSizes = <<>>
             /\ io.extractCalls = 0
    /\ (io.echoes # <<>> /\ io.echoes[1] = cur.request)
          => /\ pc \in {"read", "validate", "done"}
             /\ pc # "read" => Len(io.readSizes) = 1
             /\ outcome.exc # "IOError: the local echo does not match the sent request"

\* an echo of the right length with one byte changed
C12_Witness ==
    /\ pc = "done"
    /\ cur.self.handle_local_echo
    /\ io.echoSizes = <<Len(cur.request)>>
    /\ Len(io.echoes[1]) = Len(cur.request)
    /\ io.echoes[1] # cur.request
    /\ outcome.exc = "IOError: the local echo does not match the sent request"
    /\ io.readSizes = <<>>

\* the payload of the response the current call read: the bytes between the
\* function code and the CRC
AnswerPayload == SubSeq(cur.answer, 3, Len(cur.answer) - 2)

\* the current call is a register command that returned to its caller
GenericReturned ==
    /\ pc = "done"
    /\ outcome.exc = "none"
    /\ cur.call.op # "_performCommand"

\* C13: a call returns only when the response agrees with the request: for
\* function codes 3 and 4 the byte count field is the number of bytes after it
\* and that number is twice the requested number of registers; for function
\* codes 6 and 16 the response repeats the register address and the value
\* (code 6) or the number of registers (code 16) of the request.
C13_ResponseAgreesWithRequest ==
    GenericReturned =>
        /\ cur.g.functioncode \in {3, 4} =>
              /\ Len(AnswerPayload) >= 1
              /\ AnswerPayload[1] = Len(AnswerPayload) - 1
              /\ Len(AnswerPayload) - 1 = 2 * cur.g.numberOfRegisters
        /\ cur.g.functioncode \in {6, 16} =>
              /\ Len(AnswerPayload) >= 4
              /\ AnswerPayload[1] * 256 + AnswerPayload[2] = cur.g.registeraddress
              /\ SubSeq(AnswerPayload, 3, 4) = SubSeq(cur.request, 5, 6)

\* a response with a valid frame whose byte count contradicts its length
C13_Witness ==
    /\ pc = "done"
    /\ cur.g.functioncode \in {3, 4}
    /\ cur.answerType = "bytearray"
    /\ Len(AnswerPayload) = 1 + 2 * cur.g.numberOfRegisters
    /\ AnswerPayload[1] # Len(AnswerPayload) - 1
    /\ outcome.exc = "ValueError: Wrong given number of bytes in the response"

\* the current call reads one register at address 0 of slave 1 with function
\* code 3, in the rtu mode
ReadsRegisterZero ==
    /\ pc # "idle"
    /\ cur.call.op \in {"read_registers", "_genericCommand"}
    /\ cur.g.functioncode = 3
    /\ cur.g.registeraddress = 0
    /\ cur.g.numberOfRegisters = 1
    /\ cur.self.address = 1
    /\ cur.self.mode = MODE_RTU

\* C14: reading one register at address 0 of slave 1 with function code 3
\* writes the eight bytes 01 03 00 00 00 01 84 0A, and nothing else.
C14_ReadRequestBytes ==
    ReadsRegisterZero =>
        /\ cur.request = <<1, 3, 0, 0, 0, 1, 132, 10>>
        /\ pc \in {"timing", "write"} => io.written = <<>>
        /\ pc \in {"echo", "read", "validate", "done"}
              => io.written = << <<1, 3, 0, 0, 0, 1, 132, 10>> >>

C14_Witness ==
    /\ ReadsRegisterZero
    /\ cur.call.op = "read_registers"
    /\ pc = "read"
    /\ io.written = << <<1, 3, 0, 0, 0, 1, 132, 10>> >>

\* the current call is read_registers of one register at address 0 of slave 1
\* and is over
ReadRegisterZeroDone ==
    /\ ReadsRegisterZero
    /\ cur.call.op = "read_registers"
    /\ pc = "done"

Magnitude(n) == IF n < 0 THEN -n ELSE n

\* the integer k is value * 10 ** numberOfDecimals truncated toward zero, the
\* value being n / 10 ** d, or for a short float a little nearer to zero
Truncates(k, value, numberOfDecimals) ==
    LET up == numberOfDecimals - value.d
        N == Magnitude(value.n) * Pow(10, IF up > 0 THEN up ELSE 0)
        M == Pow(10, IF up < 0 THEN -up ELSE 0)
    IN  IF value.n = 0 THEN k = 0
        ELSE IF up >= 5 THEN FALSE
        ELSE /\ (k >= 0 /\ value.n > 0) \/ (k <= 0 /\ value.n < 0)
             /\ IF value.short
                THEN Magnitude(k) * M < N /\ N <= (Magnitude(k) + 1) * M
                ELSE Magnitude(k) * M <= N /\ N < (Magnitude(k) + 1) * M

\* C16: _numToTwoByteArray of a number fails with the range error when value
\* times 10 ** decimals, truncated toward zero, is outside 0..65535 (unsigned)
\* or -32768..32767 (signed), and otherwise returns exactly two bytes, the
\* big-endian representation of that integer, in two's complement when signed.
C16_TwoByteEncoding ==
    (nc.stage \in {"encoded", "decoded"} /\ nc.op = "number"
        /\ nc.value.t \in {"int", "float"})
    => LET lo == IF nc.signed THEN -32768 ELSE 0
           hi == IF nc.signed THEN 32767 ELSE 65535
       IN  IF nc.encoded.exc = "none"
           THEN /\ Len(nc.encoded.val) = 2
                /\ \A i \in 1..2 : nc.encoded.val[i] \in 0..255
                /\ LET u == nc.encoded.val[1] * 256 + nc.encoded.val[2]
                       k == IF nc.signed /\ u >= 32768 THEN u - 65536 ELSE u
                   IN  Truncates(k, nc.value, nc.numberOfDecimals)
           ELSE /\ nc.encoded.exc = "ValueError: The value to send is probably out of range"
                /\ \A k \in lo..hi : ~Truncates(k, nc.value, nc.numberOfDecimals)

\* -1.5 with no decimals, signed, is encoded as -1: FF FF
C16_Witness ==
    /\ nc.stage = "encoded"
    /\ nc.op = "number"
    /\ nc.value = PyFloat(-15, 1)
    /\ nc.numberOfDecimals = 0
    /\ nc.signed
    /\ nc.encoded = Ok(<<255, 255>>)

\* value * 10 ** numberOfDecimals is a whole number that a register holds
Representable(value, numberOfDecimals, signed) ==
    LET up == numberOfDecimals - value.d
        scaled == IF up >= 0 THEN value.n * Pow(10, up) ELSE value.n \div Pow(10, -up)
    IN  \/ value.n = 0
        \/ /\ up < 5
           /\ up >= 0 \/ value.n % Pow(10, -up) = 0
           /\ IF signed THEN scaled \in -32768..32767 ELSE scaled \in 0..65535

\* the numbers a and b have the same decimal value
SameNumber(a, b) ==
    IF a.n = 0 \/ b.n = 0 THEN a.n = b.n
    ELSE IF a.d >= b.d THEN a.d - b.d < 5 /\ a.n = b.n * Pow(10, a.d - b.d)
    ELSE b.d - a.d < 5 /\ b.n = a.n * Pow(10, b.d - a.d)

\* C17: for every value that a register holds with the given decimals, the two
\* bytes of _numToTwoByteArray decoded by _twoByteStringToNum with the same
\* decimals and signedness give the value back (as the same integer when
\* decimals is 0).
C17_Original ==
    (nc.op = "number" /\ nc.stage \in {"encoded", "decoded"}
        /\ nc.value.t \in {"int", "float"}
        /\ Representable(nc.value, nc.numberOfDecimals, nc.signed))
    => /\ nc.encoded.exc = "none"
       /\ nc.stage = "decoded"
          => /\ nc.decoded.exc = "none"
             /\ SameNumber(nc.decoded.val, nc.value)
             /\ nc.numberOfDecimals = 0 => nc.decoded.val = PyInt(nc.value.n)

\* C18: a write_register call (function code 6 or 16) with signed=True and a
\* scaled value in -32768..32767 is accepted, reaches the transmit step, and
\* the request it writes carries the value as a signed 16-bit big-endian field.
C18_Original ==
    (/\ pc = "done"
     /\ cur.call.op = "write_register"
     /\ cur.call.functioncode \in {6, 16}
     /\ cur.call.signed
     /\ cur.call.value.t = "int"
     /\ ScaledValue(cur) \in -32768..32767
     /\ cur.call.registeraddress \in 0..65535
     /\ cur.self.address \in 0..247
     /\ cur.self.mode = MODE_RTU)
    => /\ Len(io.written) = 1
       /\ LET u == ScaledValue(cur) % 65536
              at == IF cur.call.functioncode = 6 THEN 4 ELSE 7
          IN  Slice(io.written[1], at, at + 2) = << u \div 256, u % 256 >>

\* C19: for a list of N >= 1 values, each in 0..65535, _valuelistToBytestring
\* with register count N returns the 2N bytes of the N big-endian pairs in list
\* order, and _bytearrayToValuelist of those bytes with register count N
\* returns the list; a list or a byte string whose length does not match the
\* register count is rejected.
C19_Original ==
    (/\ nc.op = "list"
     /\ nc.stage \in {"encoded", "decoded"}
     /\ nc.numberOfRegisters >= 1
     /\ \A i \in 1..Len(nc.valuelist) : nc.valuelist[i] \in 0..65535)
    => /\ IF Len(nc.valuelist) = nc.numberOfRegisters
          THEN /\ nc.encoded.exc = "none"
               /\ Len(nc.encoded.val) = 2 * nc.numberOfRegisters
               /\ \A i \in 1..Len(nc.valuelist) :
                     /\ nc.encoded.val[2 * i - 1] = nc.valuelist[i] \div 256
                     /\ nc.encoded.val[2 * i] = nc.valuelist[i] % 256
          ELSE nc.encoded.exc # "none"
       /\ nc.stage = "decoded"
          => IF Len(nc.bytestring) = 2 * nc.numberOfRegisters
             THEN nc.bytestring = RegisterBytes(nc.valuelist)
                     => nc.decoded = Return(PyList(nc.valuelist))
             ELSE nc.decoded.exc # "none"

\* the steps from one phase to the next: a call is built and goes to the timing
\* wait (or fails), then the write, the echo check when enabled, the response
\* read, the validation; "done" is Done or Failed, left only by the caller
PhaseSteps ==
    {<<"idle", "timing">>, <<"idle", "done">>,
     <<"timing", "write">>,
     <<"write", "echo">>, <<"write", "read">>,
     <<"echo", "read">>, <<"echo", "done">>,
     <<"read", "validate">>, <<"read", "done">>,
     <<"validate", "done">>,
     <<"done", "idle">>}

PhasesInOrder ==
    /\ pc \in {"idle", "timing", "write"} => io.written = <<>>
    /\ pc \in {"echo", "read", "validate"} => Len(io.written) = 1
    /\ io.echoSizes # <<>> => io.written # <<>> /\ cur.self.handle_local_echo
    /\ pc \in {"idle", "timing", "write", "echo"} => io.readSizes = <<>>
    /\ io.readSizes # <<>> => io.written # <<>>
    /\ pc = "validate" => Len(io.readSizes) = 1 /\ cur.answer # <<>>
    /\ pc \in {"idle", "timing", "write", "echo", "read"} => io.extractCalls = 0
    /\ io.extractCalls > 0 => Len(io.readSizes) = 1 /\ cur.answer # <<>>

\* C20: a transaction goes through build, timing wait, transmit, optional echo
\* check, response read and validation in this order and never back: nothing
\* is written before the timing wait is over, the response is read only after
\* the write, the validation runs only after a non-empty response read, and
\* every transaction ends, done or failed.
C20_LinearTransaction ==
    /\ []PhasesInOrder
    /\ [][pc' # pc => <<pc, pc'>> \in PhaseSteps]_vars
    /\ (pc # "idle") ~> (pc = "done")

\* a transaction with an echo check is done: one write, one echo read, one
\* response read, one validation, and a returned value
C20_Witness ==
    /\ pc = "done"
    /\ outcome.exc = "none"
    /\ cur.self.handle_local_echo
    /\ Len(io.written) = 1
    /\ Len(io.echoSizes) = 1
    /\ Len(io.readSizes) = 1
    /\ io.extractCalls = 1

PredictQuantity == pr.payloadToSlave[3] * 256 + pr.payloadToSlave[4]

\* C23 as stated: for a request payload of at least 4 bytes,
\* _predictResponseSize returns 8 for function codes 5, 6, 15 and 16, returns
\* 2 + 1 + ceil(Q/8) + 2 for function codes 1 and 2, and raises for any other
\* function code.
C23_Original ==
    (pr.stage = "returned" /\ Len(pr.payloadToSlave) >= 4)
    => IF pr.functioncode \in {5, 6, 15, 16} THEN pr.size = Ok(8)
       ELSE IF pr.functioncode \in {1, 2}
       THEN pr.size = Ok(2 + 1 + ((PredictQuantity + 7) \div 8) + 2)
       ELSE pr.size.exc # "none"

\* C23: for a request payload of at least 4 bytes, _predictResponseSize
\* returns 8 for function codes 5, 6, 15 and 16, returns 2 + 1 + ceil(Q/8) + 2
\* for function codes 1 and 2, returns a size for function codes 3 and 4 as
\* well, and raises the "Wrong functioncode" error for any other function code.
C23_WriteAndBitSizes ==
    (pr.stage = "returned" /\ Len(pr.payloadToSlave) >= 4)
    => IF pr.functioncode \in {5, 6, 15, 16} THEN pr.size = Ok(8)
       ELSE IF pr.functioncode \in {1, 2}
       THEN pr.size = Ok(2 + 1 + ((PredictQuantity + 7) \div 8) + 2)
       ELSE IF pr.functioncode \in {3, 4}
       THEN pr.size = Ok(2 + 1 + 2 * PredictQuantity + 2)
       ELSE pr.size = RaiseN("ValueError: Wrong functioncode")

\* 257 coils are asked for with function code 1: 33 data bytes, 38 bytes in all
C23_Witness ==
    /\ pr.stage = "returned"
    /\ pr.functioncode = 1
    /\ Len(pr.payloadToSlave) = 4
    /\ PredictQuantity = 257
    /\ pr.size = Ok(2 + 1 + 33 + 2)

(***************************************************************************)
(* The latest read time and the timing step                                *)
(***************************************************************************)
\* the call has ended with the error of an empty answer
EndedWithNoAnswer ==
    /\ pc = "done"
    /\ outcome.exc = "IOError: No communication with the instrument (no answer)"

\* C24 as stated: a call whose response read returns no bytes leaves the
\* latest read time of the port as it was when the call began.
C24_Original ==
    EndedWithNoAnswer => _LATEST_READ_TIMES = io.latestAtCall

\* C24: the latest read time of the port is set when the response read
\* returns, before the answer is looked at: a call whose response read returns
\* no bytes has recorded the time of that read for its port, and has left the
\* times of the other ports as they were.
C24_NoAnswerIsRecorded ==
    EndedWithNoAnswer =>
        /\ cur.self.port \in DOMAIN _LATEST_READ_TIMES
        /\ _LATEST_READ_TIMES = (cur.self.port :> ticks_ms) @@ io.latestAtCall

\* a call without an answer on a port that was read before, at an earlier time
C24_Witness ==
    /\ EndedWithNoAnswer
    /\ cur.answer = <<>>
    /\ cur.self.port \in DOMAIN io.latestAtCall
    /\ io.latestAtCall[cur.self.port] < _LATEST_READ_TIMES[cur.self.port]

\* the time since the latest read of the port, in milliseconds, as the timing
\* step of the current call saw it
TimeSinceReadAtCall ==
    (io.calledAt \div UnitsPerMs)
    - (IF cur.self.port \in DOMAIN io.latestAtCall THEN io.latestAtCall[cur.self.port] ELSE 0)

\* the time since the latest read was at least the minimum silent period when
\* the timing step of the current call ran
SilentAtCall ==
    LET minimum_silent_period == _calculate_minimum_silent_period(cur.self.baudrate)
    IN  TimeSinceReadAtCall * minimum_silent_period.den >= minimum_silent_period.num

\* C25: when the time since the latest read of the port is at least the
\* minimum silent period, the timing step does not sleep: the request is
\* written at the time the timing step ran.
C25_NoSleepWhenSilent ==
    (/\ pc \in {"echo", "read", "validate", "done"}
     /\ io.written # <<>>
     /\ SilentAtCall)
    => io.lastWrite.at = io.calledAt

\* a request written without a sleep on a port that was read before
C25_Witness ==
    /\ pc = "done"
    /\ io.written # <<>>
    /\ cur.self.port \in DOMAIN io.latestAtCall
    /\ SilentAtCall
    /\ io.lastWrite.at = io.calledAt
    /\ io.calledAt > 0

\* the latest read times after the response read of the current call
RecordedByRead == (cur.self.port :> ticks_ms) @@ io.latestAtCall

\* C26: the latest read time of the port is written once in a call that
\* reaches the response read, in the step in which the read returns and before
\* the answer is validated; a call that fails validation has written it; a
\* call that fails before the write or on the echo has not.
C26_RecordedOnceAtTheRead ==
    /\ [](pc \in {"timing", "write", "echo", "read"} => _LATEST_READ_TIMES = io.latestAtCall)
    /\ []((pc = "done" /\ io.readSizes = <<>>) => _LATEST_READ_TIMES = io.latestAtCall)
    /\ []((pc \in {"validate", "done"} /\ io.readSizes # <<>>)
            => /\ Len(io.readSizes) = 1
               /\ _LATEST_READ_TIMES = RecordedByRead)
    /\ [][_LATEST_READ_TIMES' # _LATEST_READ_TIMES
            => /\ pc = "read"
               /\ pc' \in {"validate", "done"}
               /\ io'.extractCalls = 0
               /\ _LATEST_READ_TIMES' = (cur.self.port :> (now' \div UnitsPerMs)) @@ _LATEST_READ_TIMES]_vars

\* a call that failed validation after a read later than the write
C26_Witness ==
    /\ pc = "done"
    /\ outcome.exc = "ValueError: Checksum error"
    /\ io.extractCalls = 1
    /\ _LATEST_READ_TIMES[cur.self.port] > io.lastWrite.at \div UnitsPerMs
    /\ _LATEST_READ_TIMES # io.latestAtCall

\* a call stopped by a wrong local echo
C26_WitnessEcho ==
    /\ pc = "done"
    /\ io.echoSizes # <<>>
    /\ io.readSizes = <<>>
    /\ Failed

\* the exception frame of the slave for the current call
ExceptionAnswer ==
    SlaveFrame(cur.self.address, _setBitOn(cur.g.functioncode, 7), <<2>>, TRUE)

\* the response read returned fewer bytes than the predicted size, but some
ShortAnswer ==
    /\ PredictionReturned
    /\ io.readSizes # <<>>
    /\ Len(cur.answer) > 0
    /\ Len(cur.answer) < cur.number_of_bytes_to_read

\* C30: an answer shorter than the predicted size, but not empty, goes to the
\* validation as it was read: the call goes on to validate it, its outcome is
\* the outcome of the validation of those bytes, and the exception frame of
\* the slave is reported as an error the slave indicates.
C30_ShortAnswerIsValidated ==
    ShortAnswer =>
        /\ pc \in {"validate", "done"}
        /\ pc = "done" =>
              /\ io.extractCalls = 1
              /\ outcome.exc # "IOError: No communication with the instrument (no answer)"
              /\ LET extracted == _extractPayload(cur.answer, cur.self.address, cur.self.mode,
                                                  cur.g.functioncode)
                 IN  extracted.exc # "none" => outcome.exc = extracted.exc
              /\ cur.answer = ExceptionAnswer
                    => outcome.exc = "ValueError: The slave is indicating an error"

\* an exception frame of 5 bytes where more were asked for
C30_Witness ==
    /\ ShortAnswer
    /\ pc = "done"
    /\ cur.answer = ExceptionAnswer
    /\ Len(cur.answer) = 5
    /\ cur.number_of_bytes_to_read \in {7, 8}
    /\ outcome.exc = "ValueError: The slave is indicating an error"

(***************************************************************************)
(* The timing step against the tick counter: time.ticks_ms() counts up and  *)
(* wraps around; a read records its value, a later call subtracts           *)
(***************************************************************************)
\* the tick counter wraps around at TicksPeriod
TicksPeriod == 4096

\* the ticks that pass between the start and the timing step, at most
MaxElapsed == 8

SleepBaudrates == {9600, 19200}

SleepStartTicks == {0, 3, TicksPeriod - 4, TicksPeriod - 1}

SleepInit ==
    /\ TxParked
    /\ fh = FrameParked
    /\ pr = PredictParked
    /\ nc = CodecParked
    /\ rr = ServeParked
    /\ th = ThreadsParked
    /\ sl \in [stage : {"running"}, ticks : SleepStartTicks, known : {FALSE}, stamp : {0},
               baudrate : SleepBaudrates, elapsed : {0}, slept : {FALSE},
               sleep_time : {[num |-> 0, den |-> 1]}]

\* time passes: the tick counter counts up and wraps around
SleepElapse ==
    /\ sl.stage = "running"
    /\ \E d \in 1..2 :
          /\ sl.elapsed + d <= MaxElapsed
          /\ sl' = [sl EXCEPT !.ticks = (@ + d) % TicksPeriod, !.elapsed = @ + d]
    /\ UNCHANGED <<txvars, fh, pr, nc, rr, th>>

\* "_LATEST_READ_TIMES[self.port] = time.ticks_ms()" of an earlier call
SleepRead ==
    /\ sl.stage = "running"
    /\ ~sl.known \/ sl.stamp # sl.ticks
    /\ sl' = [sl EXCEPT !.known = TRUE, !.stamp = sl.ticks]
    /\ UNCHANGED <<txvars, fh, pr, nc, rr, th>>

\* the timing step of _communicate: the time since the read by subtraction,
\* a port without a recorded read counts from tick 0
SleepTiming ==
    /\ sl.stage = "running"
    /\ LET minimum_silent_period == _calculate_minimum_silent_period(sl.baudrate)
           time_since_read == sl.ticks - (IF sl.known THEN sl.stamp ELSE 0)
       IN  sl' = [sl EXCEPT !.stage = "timed",
                            !.slept = NeedsSleep(time_since_read, minimum_silent_period),
                            !.sleep_time =
                                IF NeedsSleep(time_since_read, minimum_silent_period)
                                THEN SleepTime(time_since_read, minimum_silent_period)
                                ELSE [num |-> 0, den |-> minimum_silent_period.den]]
    /\ UNCHANGED <<txvars, fh, pr, nc, rr, th>>

SleepNext ==
    \/ SleepElapse
    \/ SleepRead
    \/ SleepTiming

\* C27 as stated: for every value of the tick counter and every recorded
\* read, the wrapped counter and the port without a recorded read included,
\* the sleep before the write lasts at least 0 and at most the minimum silent
\* period.
C27_Original ==
    sl.stage = "timed" =>
        /\ 0 <= sl.sleep_time.num
        /\ sl.sleep_time.num <= _calculate_minimum_silent_period(sl.baudrate).num

\* the tick counter has not wrapped around since the recorded read
NotWrapped == ~sl.known \/ sl.stamp <= sl.ticks

\* without a wrap of the tick counter the sleep is within the minimum silent
\* period
SleepWithinPeriod ==
    (sl.stage = "timed" /\ NotWrapped) =>
        /\ 0 <= sl.sleep_time.num
        /\ sl.sleep_time.num <= _calculate_minimum_silent_period(sl.baudrate).num

(***************************************************************************)
(* read_registers and the answers a slave can give it                      *)
(***************************************************************************)
\* the numbers of registers asked for
ServeCounts == {0, 1, 2, 127, 128, 255, 256}

\* the values of the byte count field, one byte
ServeByteCounts == 0..255

\* the data bytes of the answer are all this byte
ServeFills == {0, 255}

\* a response frame to read_registers(0, numberOfRegisters) of instrument i1:
\* its address, function code 3, the byte count field, two data bytes for
\* each register and the CRC
ServeAnswer(numberOfRegisters, bytecount, fill) ==
    SlaveFrame(InstrumentAddress("i1"), 3,
               <<bytecount>> \o Repeat(<<fill>>, 2 * numberOfRegisters), TRUE)

\* read_registers(0, numberOfRegisters) of instrument i1 when the transport
\* returns answer to the response read: the checks of the method and of
\* _genericCommand, then _extractPayload and the rest of _genericCommand
ReadRegistersWith(numberOfRegisters, answer) ==
    LET self == AfterInit("i1")
        call == read_registers(0, numberOfRegisters, 3)
        g == GenericArguments(call)
        payloadFromSlave == _extractPayload(answer, self.address, self.mode, g.functioncode)
    IN  IF FacadeCheck(call) # "none" THEN {Raise(FacadeCheck(call))}
        ELSE IF GenericCheck(g) # "none" THEN {Raise(GenericCheck(g))}
        ELSE IF payloadFromSlave.exc # "none" THEN {Raise(payloadFromSlave.exc)}
        ELSE GenericFinish(g, payloadFromSlave.val, "bytearray")

\* read_registers takes this number of registers
ServeAccepted(numberOfRegisters) ==
    LET call == read_registers(0, numberOfRegisters, 3)
    IN  FacadeCheck(call) = "none" /\ GenericCheck(GenericArguments(call)) = "none"

\* the call returned a list of numberOfRegisters values in 0..65535
ServedBy(result, numberOfRegisters) ==
    /\ result.exc = "none"
    /\ result.val.t = "list"
    /\ Len(result.val.l) = numberOfRegisters
    /\ \A k \in 1..Len(result.val.l) : result.val.l[k] \in 0..65535

ServeInit ==
    /\ TxParked
    /\ fh = FrameParked
    /\ pr = PredictParked
    /\ nc = CodecParked
    /\ sl = SleepParked
    /\ th = ThreadsParked
    /\ rr \in [stage : {"args"}, numberOfRegisters : ServeCounts, bytecount : {0},
               fill : {0}, outcome : {NoOutcome}]

\* the call is made and the slave answers with a frame of the asked length
ServeCall ==
    /\ rr.stage = "args"
    /\ \E bytecount \in ServeByteCounts, fill \in ServeFills :
          \E result \in ReadRegistersWith(rr.numberOfRegisters,
                            ServeAnswer(rr.numberOfRegisters, bytecount, fill)) :
              rr' = [rr EXCEPT !.stage = "done", !.bytecount = bytecount, !.fill = fill,
                               !.outcome = result]
    /\ UNCHANGED <<txvars, fh, pr, nc, sl, th>>

\* C29 as stated: for every number of registers from 1 to 255, which
\* read_registers takes, there is a response frame with a one-byte byte count
\* and two data bytes for each register with which the call returns a list of
\* that many values in 0..65535.
C29_Original ==
    (/\ rr.stage = "args"
     /\ rr.numberOfRegisters \in 1..255)
    => /\ ServeAccepted(rr.numberOfRegisters)
       /\ \E bytecount \in ServeByteCounts, fill \in ServeFills :
             \E result \in ReadRegistersWith(rr.numberOfRegisters,
                               ServeAnswer(rr.numberOfRegisters, bytecount, fill)) :
                 ServedBy(result, rr.numberOfRegisters)

\* the numbers of registers from 1 to 255 are taken, and up to 127 registers
\* the answer whose byte count is the number of data bytes is returned as the
\* list of values
ServedWhenCountFits ==
    /\ (rr.stage = "done" /\ rr.numberOfRegisters \in 1..255)
          => rr.outcome.exc \notin {"ValueError: number of registers"}
    /\ (rr.stage = "done" /\ rr.numberOfRegisters \in 1..127
        /\ rr.bytecount = 2 * rr.numberOfRegisters)
          => ServedBy(rr.outcome, rr.numberOfRegisters)

\* from 128 registers on every answer is refused for its byte count
UnservedFrom128 ==
    (rr.stage = "done" /\ rr.numberOfRegisters \in 128..255)
        => rr.outcome.exc = _checkResponseByteCount(<<rr.bytecount>> \o Repeat(<<rr.fill>>, 2 * rr.numberOfRegisters))

(***************************************************************************)
(* Threads: each thread runs the transactions of one instrument; the steps  *)
(* of _communicate of different threads interleave, the latest read times   *)
(* are shared                                                              *)
(***************************************************************************)
\* i1 and i2 share port 1, i3 has port 2 to itself
ThreadInstruments == Instruments \cup {"i3"}

\* the transactions the threads run, at most
MaxCalls == 3

\* the time at which the threads start
ThreadsStart == 10

ThreadIdle ==
    [pc |-> "idle", checkedAt |-> 0, latestAtCheck |-> <<>>, wake |-> 0, missed |-> FALSE,
     sinceRead |-> 0, overlapped |-> FALSE]

ThreadsInit ==
    /\ now = ThreadsStart
    /\ _LATEST_READ_TIMES = <<>>
    /\ pc = "parked"
    /\ cur = NoCall
    /\ outcome = NoOutcome
    /\ io = NoIo
    /\ readBy = <<>>
    /\ fh = FrameParked
    /\ pr = PredictParked
    /\ nc = CodecParked
    /\ sl = SleepParked
    /\ rr = ServeParked
    /\ th = [stage |-> "running",
             t |-> [i \in ThreadInstruments |-> ThreadIdle],
             calls |-> 0]

\* the time at which the sleep of the timing step ends, for a check at the
\* present time
WakeTime(self) ==
    LET minimum_silent_period == _calculate_minimum_silent_period(self.baudrate)
        time_since_read == ticks_ms - LatestReadTime(self.port)
    IN  IF NeedsSleep(time_since_read, minimum_silent_period)
        THEN now + UnitsOf(SleepTime(time_since_read, minimum_silent_period))
        ELSE now

\* mutant: the port is locked from the write to the response read
MayWrite_PortIdle(i) ==
    /\ now >= th.t[i].wake
    /\ \A j \in ThreadInstruments \ {i} :
          InstrumentPort(j) = InstrumentPort(i) => th.t[j].pc # "read"

\* time.sleep_ms(sleep_time) has returned; nothing else is waited for before
\* self.serial.write(request)
MayWrite(i) == now >= th.t[i].wake

\* the other threads on the port of thread i
Sharers(i) == {j \in ThreadInstruments \ {i} : InstrumentPort(j) = InstrumentPort(i)}

\* the timing check of a transaction of thread i
ThreadCheck(i) ==
    /\ th.stage = "running"
    /\ th.t[i].pc = "idle"
    /\ th.calls < MaxCalls
    /\ WakeTime(AfterInit(i)) <= MaxTime
    /\ th' = [th EXCEPT !.t[i] = [ThreadIdle EXCEPT !.pc = "write", !.checkedAt = now,
                                                    !.latestAtCheck = _LATEST_READ_TIMES,
                                                    !.wake = WakeTime(AfterInit(i))],
                        !.calls = @ + 1]
    /\ UNCHANGED <<txvars, fh, pr, nc, sl, rr>>

\* the write of the request of thread i; sinceRead is the time since the
\* latest recorded read of the port at the write, in milliseconds, overlapped
\* tells that another thread on the port has written and not yet read
ThreadWrite(i) ==
    /\ th.stage = "running"
    /\ th.t[i].pc = "write"
    /\ MayWrite(i)
    /\ th' = [th EXCEPT !.t[i] =
                 [ThreadIdle EXCEPT !.pc = "read",
                                    !.missed = th.t[i].missed,
                                    !.sinceRead = ticks_ms - LatestReadTime(InstrumentPort(i)),
                                    !.overlapped = \E j \in Sharers(i) : th.t[j].pc = "read"]]
    /\ UNCHANGED <<txvars, fh, pr, nc, sl, rr>>

\* the response read of thread i returns and its time is recorded; the
\* threads on the port that have made their timing check and not yet written
\* have missed this read
ThreadRead(i) ==
    /\ th.stage = "running"
    /\ th.t[i].pc = "read"
    /\ _LATEST_READ_TIMES' = RecordRead(InstrumentPort(i), ticks_ms)
    /\ th' = [th EXCEPT !.t = [j \in ThreadInstruments |->
                                  IF j = i THEN ThreadIdle
                                  ELSE IF j \in Sharers(i) /\ th.t[j].pc = "write"
                                  THEN [th.t[j] EXCEPT !.missed = TRUE]
                                  ELSE th.t[j]]]
    /\ UNCHANGED <<now, pc, cur, outcome, io, readBy, fh, pr, nc, sl, rr>>

\* time passes
ThreadTick ==
    /\ th.stage = "running"
    /\ now < MaxTime
    /\ now' = now + 1
    /\ UNCHANGED <<_LATEST_READ_TIMES, pc, cur, outcome, io, readBy, fh, pr, nc, sl, rr, th>>

ThreadsNext ==
    \/ ThreadTick
    \/ \E i \in ThreadInstruments : ThreadCheck(i)
    \/ \E i \in ThreadInstruments : ThreadWrite(i)
    \/ \E i \in ThreadInstruments : ThreadRead(i)

\* C22: nothing makes a thread wait for the other threads on its port: once
\* its sleep is over a thread can write its request whatever the other threads
\* have done since its timing check, a response read recorded in between and a
\* request written and not yet answered included.
C22_NothingSerialises ==
    \A i \in ThreadInstruments :
        (th.stage = "running" /\ th.t[i].pc = "write" /\ now >= th.t[i].wake)
            => ENABLED ThreadWrite(i)

\* thread a has written less than the minimum silent period after a read of
\* thread b that was recorded after its timing check; then b has written
\* while a is between its write and its response read
C22_Witness ==
    /\ th.stage = "running"
    /\ \E a \in ThreadInstruments : \E b \in Sharers(a) :
          LET minimum_silent_period == _calculate_minimum_silent_period(InstrumentBaudrate(a))
          IN  /\ th.t[a].pc = "read"
              /\ th.t[a].missed
              /\ th.t[a].sinceRead >= 0
              /\ th.t[a].sinceRead * minimum_silent_period.den < minimum_silent_period.num
              /\ th.t[b].pc = "read"
              /\ th.t[b].overlapped

\* the entry of port p in a dictionary of read times, with the default of
\* "_LATEST_READ_TIMES.get(self.port, 0)"
EntryOf(latest, p) == IF p \in DOMAIN latest THEN latest[p] ELSE 0

\* the end of the sleep of a timing check made at time checkedAt on a port
\* whose latest read was at tick stamp
WakeFrom(checkedAt, stamp, baudrate) ==
    LET minimum_silent_period == _calculate_minimum_silent_period(baudrate)
        time_since_read == (checkedAt \div UnitsPerMs) - stamp
    IN  IF time_since_read * minimum_silent_period.den < minimum_silent_period.num
        THEN checkedAt + UnitsOf(SleepTime(time_since_read, minimum_silent_period))
        ELSE checkedAt

\* C28: a transaction changes the latest read time of its own port only, in
\* its response read, and leaves the entries of the other ports as they are;
\* the sleep of its timing step is fixed by the entry of its own port.
C28_OwnPortOnly ==
    /\ [](\A i \in ThreadInstruments :
            (th.stage = "running" /\ th.t[i].pc = "write")
                => th.t[i].wake = WakeFrom(th.t[i].checkedAt,
                                           EntryOf(th.t[i].latestAtCheck, InstrumentPort(i)),
                                           InstrumentBaudrate(i)))
    /\ [][_LATEST_READ_TIMES' # _LATEST_READ_TIMES
            => \E i \in ThreadInstruments :
                  /\ th.t[i].pc = "read"
                  /\ th'.t[i].pc = "idle"
                  /\ DOMAIN _LATEST_READ_TIMES' = DOMAIN _LATEST_READ_TIMES \cup {InstrumentPort(i)}
                  /\ \A p \in DOMAIN _LATEST_READ_TIMES \ {InstrumentPort(i)} :
                        _LATEST_READ_TIMES'[p] = _LATEST_READ_TIMES[p]]_vars

\* the second transaction on port 2 does not sleep, though port 1 was read in
\* the millisecond of its timing check; both ports have their own read times
C28_Witness ==
    /\ th.stage = "running"
    /\ th.t["i3"].pc = "write"
    /\ DOMAIN th.t["i3"].latestAtCheck = {1, 2}
    /\ th.t["i3"].latestAtCheck[1] = th.t["i3"].checkedAt \div UnitsPerMs
    /\ th.t["i3"].latestAtCheck[2] < th.t["i3"].latestAtCheck[1]
    /\ th.t["i3"].wake = th.t["i3"].checkedAt

(***************************************************************************)
(* Specifications                                                          *)
(***************************************************************************)
Spec == Init /\ [][Next]_vars

SpecFrame == FrameInit /\ [][FrameNext]_vars

SpecPredict == PredictInit /\ [][PredictCall]_vars

\* self.serial.read returns: the call leaves the response read, for the
\* validation or with the "no answer" error
ReadReturns == pc = "read" /\ pc' \in {"validate", "done"}

\* _extractPayload and the rest of _genericCommand are straight-line code: the
\* validation ends
ValidationEnds == pc = "validate" /\ pc' = "done"

\* _communicate is straight-line blocking code: once a call is in a phase and
\* the transport's write and read return, its next step is taken
SpecLive ==
    /\ Init
    /\ [][Next]_vars
    /\ WF_vars(CommunicateSleep)
    /\ WF_vars(CommunicateNoSleep)
    /\ WF_vars(CommunicateWrite)
    /\ WF_vars(CommunicateEcho)
    /\ WF_pc(ReadReturns)
    /\ WF_pc(ValidationEnds)

SpecCodec == CodecInit /\ [][CodecNext]_vars

SpecSleep == SleepInit /\ [][SleepNext]_vars

SpecServe == ServeInit /\ [][ServeCall]_vars

SpecThreads == ThreadsInit /\ [][ThreadsNext]_vars

====
